---------------------------- MODULE Spec2Model ----------------------------
(***************************************************************************)
(* A model of fibre/libfibre.py: the python side of libfibre.             *)
(*                                                                         *)
(* Every run_event_loop() call creates one reactor thread, one asyncio    *)
(* loop and one LibFibre instance; the three share one index g, the       *)
(* "generation".  The module-level globals libfibre, terminate_libfibre,  *)
(* libfibre_thread, libfibre_refcount and lock are variables of their own.*)
(* python's None is modelled as 0 wherever the value is a handle, an      *)
(* index or a thread.                                                      *)
(***************************************************************************)
EXTENDS Integers, Sequences, FiniteSets, TLC

VARIABLES
    objects,            \* [g] LibFibre._objects: object handle -> proxy
    interfaces,         \* [g] LibFibre.interfaces: interface handle -> class
    discovery_processes,\* [g] LibFibre.discovery_processes: id -> record
    queue,              \* [g] the asyncio loop's ready queue (FIFO)
    reactor,            \* [g] run_event_loop of generation g: its loop and coroutine
    types,              \* the classes made by _load_py_intf
    proxies,            \* the RemoteObject instances ever made
    futures,            \* the asyncio futures made by RemoteFunction.__call__
    bridge,             \* [t] run_coroutine_threadsafe as called by thread t
    attempts,           \* the operation on a proxy the last step ran, and its outcome
    nativeLog,          \* the native entry points invoked so far (history)
    nativeDiscovery,    \* the discoveries running inside the native library
    libfibre,           \* global libfibre (0 = None)
    terminate_libfibre, \* global terminate_libfibre: the generation whose future it is
    libfibre_thread,    \* global libfibre_thread (0 = None)
    libfibre_refcount,  \* global libfibre_refcount
    lock,               \* global lock: 0 = free, else the holding thread
    events,             \* the Event objects (cancellation tokens)
    thr                 \* [th] where thread th stands: user and reactor threads

regVars == <<objects, interfaces, types, proxies>>
callVars == <<futures, bridge>>
rtVars == <<discovery_processes, reactor, nativeDiscovery, libfibre,
              terminate_libfibre, libfibre_thread, libfibre_refcount, lock, events, thr>>
vars == <<objects, interfaces, discovery_processes, queue, reactor, types,
              proxies, futures, bridge, attempts, nativeLog, nativeDiscovery,
              libfibre, terminate_libfibre, libfibre_thread, libfibre_refcount,
              lock, events, thr>>

---------------------------------------------------------------------------
(* Bounds of the model *)

MaxThreads == 2
MaxProxies == 1
MaxTypes == 2
MaxFutures == 2
MaxGen == 2
MaxCallers == 1
MaxObj == 1
MaxIntf == 1

(* Status codes of libfibre *)
kFibreOk == 0
kFibreCancelled == 1
kFibreClosed == 2
kFibreInvalidArgument == 3
kFibreInternalError == 4

(* struct.calcsize("P") on a 64 bit build *)
PtrSize == 8

None == 0
Threads == 1..MaxThreads
\* the user threads that call functions
Callers == 1..MaxCallers
\* The reactor thread of generation g, as a thread identity distinct from
\* the user threads.
ReactorThread(g) == MaxThreads + g
AllThreads == 1..(MaxThreads + MaxGen)

EmptyMap == [x \in {} |-> 0]
Put(f, k, v) == [x \in (DOMAIN f) \cup {k} |-> IF x = k THEN v ELSE f[x]]
Pop(f, k) == [x \in (DOMAIN f) \ {k} |-> f[x]]

RECURSIVE SumSeq(_)
SumSeq(s) == IF s = <<>> THEN 0 ELSE Head(s) + SumSeq(Tail(s))

---------------------------------------------------------------------------
(* Exceptions and _get_exception *)

_get_exception(status) ==
    CASE status = kFibreOk -> "None"
      [] status = kFibreCancelled -> "CancelledError"
      [] status = kFibreClosed -> "ObjectLostError"
      [] status = kFibreInvalidArgument -> "ArgumentError"
      [] status = kFibreInternalError -> "Exception: internal libfibre error"
      [] OTHER -> "Exception: unknown libfibre error"

---------------------------------------------------------------------------
(* Codecs *)

\* struct.calcsize of each codec's format
CodecLength(name) ==
    CASE name \in {"int8", "uint8", "bool"} -> 1
      [] name \in {"int16", "uint16"} -> 2
      [] name \in {"int32", "uint32", "float"} -> 4
      [] name \in {"int64", "uint64"} -> 8
      [] name = "object_ref" -> PtrSize

CodecNames == {"int8", "uint8", "int16", "uint16", "int32", "uint32",
               "int64", "uint64", "bool", "float", "object_ref"}

RECURSIVE Pow256(_)
Pow256(n) == IF n = 0 THEN 1 ELSE 256 * Pow256(n - 1)

\* little-endian bytes of v, n of them
RECURSIVE PackLE(_, _)
PackLE(v, n) == IF n = 0 THEN <<>> ELSE <<v % 256>> \o PackLE(v \div 256, n - 1)

RECURSIVE UnpackLE(_)
UnpackLE(b) == IF b = <<>> THEN 0 ELSE Head(b) + 256 * UnpackLE(Tail(b))

Zeros(n) == [i \in 1..n |-> 0]

\* Values are records: [t |-> "int", v |-> n], [t |-> "none"] (python None),
\* [t |-> "obj", p |-> proxy].  A serializer yields [exc |-> name] or
\* [exc |-> "None", bytes |-> b].
IntV(n) == [t |-> "int", v |-> n]
NoneV == [t |-> "none"]
ObjV(p) == [t |-> "obj", p |-> p]

Unsigned(name) == name \in {"uint8", "uint16", "uint32", "uint64"}

\* StructCodec with target type int: int(value) is a TypeError for None and
\* for a proxy, struct.pack a struct.error out of the format's range.  (The
\* bool and float codecs are in the table for their lengths only; no
\* signature of the model uses them.)

StructCodec_serialize(name, value) ==
    IF value.t # "int" THEN [exc |-> "TypeError"]
    ELSE IF Unsigned(name)
         THEN IF value.v < 0 \/ value.v >= Pow256(CodecLength(name))
              THEN [exc |-> "struct.error"]
              ELSE [exc |-> "None", bytes |-> PackLE(value.v, CodecLength(name))]
         ELSE IF 2 * value.v < -Pow256(CodecLength(name))
                 \/ 2 * value.v >= Pow256(CodecLength(name))
              THEN [exc |-> "struct.error"]
              ELSE [exc |-> "None",
                    bytes |-> PackLE((value.v + Pow256(CodecLength(name)))
                                        % Pow256(CodecLength(name)),
                                     CodecLength(name))]

StructCodec_deserialize(name, buffer) ==
    IF Unsigned(name) THEN IntV(UnpackLE(buffer))
    ELSE IF 2 * UnpackLE(buffer) >= Pow256(CodecLength(name))
         THEN IntV(UnpackLE(buffer) - Pow256(CodecLength(name)))
         ELSE IntV(UnpackLE(buffer))

ObjectPtrCodec_serialize(value) ==
    IF value.t = "none" THEN [exc |-> "None", bytes |-> PackLE(0, PtrSize)]
    ELSE IF value.t = "obj"
         THEN IF proxies[value.p].obj_handle = None
              THEN [exc |-> "struct.error"]
              ELSE [exc |-> "None",
                    bytes |-> PackLE(proxies[value.p].obj_handle, PtrSize)]
         ELSE [exc |-> "TypeError"]

\* libfibre._objects[handle]: a KeyError when the handle is not registered
ObjectPtrCodec_deserialize(g, buffer) ==
    IF UnpackLE(buffer) = 0 THEN [exc |-> "None", val |-> NoneV]
    ELSE IF UnpackLE(buffer) \in DOMAIN objects[g]
         THEN [exc |-> "None", val |-> ObjV(objects[g][UnpackLE(buffer)])]
         ELSE [exc |-> "KeyError"]

serialize(name, value) ==
    IF name = "object_ref" THEN ObjectPtrCodec_serialize(value)
    ELSE StructCodec_serialize(name, value)

deserialize(g, name, buffer) ==
    IF name = "object_ref" THEN ObjectPtrCodec_deserialize(g, buffer)
    ELSE [exc |-> "None", val |-> StructCodec_deserialize(name, buffer)]

\* a new id that is one more than the number of records
NewIdCountMutant(dictionary) == Cardinality(DOMAIN dictionary) + 1

\* insert_with_new_id: the smallest positive integer that is no key
NewId(dictionary) ==
    CHOOSE x \in 1..(Cardinality(DOMAIN dictionary) + 1) :
        /\ x \notin DOMAIN dictionary
        /\ \A y \in 1..(x - 1) : y \in DOMAIN dictionary


\* no operation on a proxy in the last step.  Besides the operation's
\* outcome the record names the thread that ran it (0: none), the maps of
\* the LibFibre instance that thread read or wrote itself, and the member
\* of the attribute's object an attribute access went on to call.
NoAttempt ==
    [op |-> "none", lost |-> FALSE, arity |-> TRUE, ser_lost |-> FALSE,
     exc |-> "None", native |-> FALSE, by |-> 0, maps |-> {}, invoked |-> "none"]

---------------------------------------------------------------------------
(* The reactor of generation g *)

\* in run_until_complete, between two callbacks
Running(g) == g \in 1..Len(reactor) /\ thr[ReactorThread(g)].pc = "running"

\* an entry of a loop's ready queue
Item(kind, t, obj) == [kind |-> kind, t |-> t, obj |-> obj]

\* loop.call_soon / call_soon_threadsafe: append to the loop's ready queue
Post(q, g, item) == [q EXCEPT ![g] = Append(@, item)]

---------------------------------------------------------------------------
(* Interface types: LibFibre._load_py_intf *)

\* The name the native library reports for an interface handle: handle 1 is
\* named, every other handle is anonymous (name is None).
NativeIntfName(intf_handle) == IF intf_handle = 1 THEN <<"ODrive">> ELSE <<>>

Cached(g, intf_handle) == intf_handle \in DOMAIN interfaces[g]

NewClass(g, name, intf_handle) ==
    [lf |-> g,
     name |-> IF name = <<>> THEN <<"anonymous_interface_", intf_handle>> ELSE name,
     handle |-> intf_handle, refcount |-> 0, members |-> EmptyMap]

\* the class _load_py_intf returns
LoadedClass(g, intf_handle) ==
    IF Cached(g, intf_handle) THEN interfaces[g][intf_handle] ELSE Len(types) + 1
\* the classes after _load_py_intf
LoadedTypes(g, name, intf_handle) ==
    IF Cached(g, intf_handle) THEN types
    ELSE Append(types, NewClass(g, name, intf_handle))
\* self.interfaces after _load_py_intf
LoadedInterfaces(g, intf_handle) ==
    IF Cached(g, intf_handle) THEN interfaces
    ELSE [interfaces EXCEPT ![g] = Put(@, intf_handle, Len(types) + 1)]
\* the native entry points after _load_py_intf
LoadedLog(g, intf_handle) ==
    IF Cached(g, intf_handle) THEN nativeLog
    ELSE nativeLog \cup {[fn |-> "subscribe_to_interface", handle |-> intf_handle]}

\* room for one more class in the model
CanLoad(g, intf_handle) == Cached(g, intf_handle) \/ Len(types) < MaxTypes

---------------------------------------------------------------------------
(* Objects: RemoteObject.__init__, RemoteObject._destroy,                  *)
(* LibFibre._construct_object, LibFibre._destroy_object                    *)

RemoteObject(g, obj_handle, cls) ==
    [libfibre |-> g, obj_handle |-> obj_handle, cls |-> cls, on_lost |-> 0]

\* a _destroy that detaches the proxy and leaves the notifier alone
DestroyedSilentMutant(p) ==
    [proxies[p] EXCEPT !.libfibre = None, !.obj_handle = None]

\* the proxy after _destroy, when _destroy runs to its end
Destroyed(p) ==
    [proxies[p] EXCEPT !.libfibre = None, !.obj_handle = None,
                       !.on_lost = @ + 1]

\* a _destroy that leaves the class's count of proxies alone
UnrefKeepsMutant(refcount) == refcount

\* self.__class__._refcount -= 1
Unref(refcount) == refcount - 1

\* RemoteObject._destroy on proxy p, given the registry objs1 it was popped
\* from.  The KeyError of interfaces.pop leaves the notifier unfired.
_destroy(p, objs1) ==
    LET g == proxies[p].libfibre
        c == proxies[p].cls
        rc == Unref(types[c].refcount)
    IN  /\ types' = [types EXCEPT ![c].refcount = rc]
        /\ objects' = objs1
        /\ IF rc = 0
           THEN IF types[c].handle \in DOMAIN interfaces[g]
                THEN /\ interfaces' = [interfaces EXCEPT
                                         ![g] = Pop(@, types[c].handle)]
                     /\ proxies' = [proxies EXCEPT ![p] = Destroyed(p)]
                ELSE /\ interfaces' = interfaces
                     /\ proxies' = [proxies EXCEPT ![p] =
                                      [@ EXCEPT !.libfibre = None,
                                                !.obj_handle = None]]
           ELSE /\ interfaces' = interfaces
                /\ proxies' = [proxies EXCEPT ![p] = Destroyed(p)]

\* the native "construct object" notification, on the reactor thread.  The
\* native library never constructs a handle that is live (the assert).  Each
\* specification bounds the number of proxies where it takes this step.
ConstructObject(g, obj, intf) ==
    /\ Running(g)
    /\ obj \notin DOMAIN objects[g]
    /\ CanLoad(g, intf)
    /\ LET c == LoadedClass(g, intf)
           t1 == LoadedTypes(g, NativeIntfName(intf), intf)
       IN  /\ types' = [t1 EXCEPT ![c].refcount = @ + 1]
           /\ proxies' = Append(proxies, RemoteObject(g, obj, c))
           /\ objects' = [objects EXCEPT ![g] = Put(@, obj, Len(proxies) + 1)]
    /\ interfaces' = LoadedInterfaces(g, intf)
    /\ nativeLog' = LoadedLog(g, intf)
    /\ attempts' = NoAttempt
    /\ UNCHANGED <<callVars, rtVars, queue>>

\* the native "destroy object" notification; _objects.pop(obj) is a KeyError
\* for a handle that is not registered, and nothing changes
DestroyObject(g, obj) ==
    /\ Running(g)
    /\ IF obj \in DOMAIN objects[g]
       THEN _destroy(objects[g][obj], [objects EXCEPT ![g] = Pop(@, obj)])
       ELSE UNCHANGED regVars
    /\ attempts' = NoAttempt
    /\ UNCHANGED <<callVars, rtVars, queue, nativeLog>>


---------------------------------------------------------------------------
(* Function descriptors: LibFibre._on_function_added, RemoteFunction       *)

FuncNames == {"f"}
FuncHandles == {1}

\* the (codec name) lists the native library reports; the last one names a
\* codec that is not in the codecs table
Signatures ==
    { [inputs |-> <<>>, outputs |-> <<>>],
      [inputs |-> <<"uint8">>, outputs |-> <<"uint16">>],
      [inputs |-> <<"object_ref">>, outputs |-> <<"uint8", "uint16">>],
      [inputs |-> <<"string">>, outputs |-> <<>>] }

\* decode_arg_list raises for a codec name that is not in codecs
Decodable(codec_names) == \A i \in 1..Len(codec_names) : codec_names[i] \in CodecNames

RemoteFunction(g, func_handle, inputs, outputs) ==
    [kind |-> "function", lf |-> g, handle |-> func_handle,
     inputs |-> inputs, outputs |-> outputs,
     rx_size |-> SumSeq([i \in 1..Len(outputs) |-> CodecLength(outputs[i])]),
     calls |-> EmptyMap]

\* the native "function added" notification for interface ctx.  A name is
\* reported once per class.
OnFunctionAdded(g, ctx, func, name, sig) ==
    /\ Running(g)
    /\ IF Decodable(sig.inputs) /\ Decodable(sig.outputs) /\ ctx \in DOMAIN interfaces[g]
       THEN /\ name \notin DOMAIN types[interfaces[g][ctx]].members
            /\ types' = [types EXCEPT ![interfaces[g][ctx]].members =
                           Put(@, name, RemoteFunction(g, func, sig.inputs, sig.outputs))]
       ELSE UNCHANGED types
    /\ attempts' = NoAttempt
    /\ UNCHANGED <<objects, interfaces, proxies, callVars, rtVars, queue, nativeLog>>

IsFunction(c, name) ==
    /\ name \in DOMAIN types[c].members
    /\ types[c].members[name].kind = "function"

---------------------------------------------------------------------------
(* The call dispatcher: RemoteFunction.__call__ on the reactor thread      *)

\* b''.join(inputs[i].serialize(args[i]) for i in range(len(inputs))), from i
RECURSIVE SerializeFrom(_, _, _)
SerializeFrom(inputs, args, i) ==
    IF i > Len(inputs) THEN [exc |-> "None", bytes |-> <<>>]
    ELSE LET head == serialize(inputs[i], args[i])
         IN  IF head.exc # "None" THEN [exc |-> head.exc]
             ELSE LET rest == SerializeFrom(inputs, args, i + 1)
                  IN  IF rest.exc # "None" THEN rest
                      ELSE [exc |-> "None", bytes |-> head.bytes \o rest.bytes]

\* an arity check that lets surplus arguments pass
ArityAcceptsMoreMutant(inputs, args) == Len(inputs) > Len(args)

\* len(self._inputs) != len(args)
ArityMismatch(inputs, args) == Len(inputs) # Len(args)

\* What __call__ raises, run on the reactor thread ("None": it returns the
\* future): the arity check, the tx buffer, then instance._libfibre.loop.
CallException(p, name, args) ==
    LET self == types[proxies[p].cls].members[name]
    IN  IF ArityMismatch(self.inputs, args) THEN "TypeError"
        ELSE IF SerializeFrom(self.inputs, args, 1).exc # "None"
             THEN SerializeFrom(self.inputs, args, 1).exc
             ELSE IF proxies[p].libfibre = None THEN "AttributeError"
                  ELSE "None"

NewFuture(c, name, call_id, waiter) ==
    [state |-> "pending", value |-> <<>>, exc |-> "None",
     cls |-> c, name |-> name, ctx |-> call_id, waiter |-> waiter,
     resolutions |-> 0, completions |-> 0, status |-> -1, rx |-> <<>>]

\* The rest of __call__ when nothing is raised: the Call record, the new id,
\* libfibre_start_call (which writes the call's handle), on thread th.
StartCall(p, name, args, waiter, th) ==
    LET c == proxies[p].cls
        self == types[c].members[name]
        call_id == NewId(self.calls)
        call == [handle |-> Len(futures) + 1,
                 tx_buf |-> SerializeFrom(self.inputs, args, 1).bytes,
                 rx_buf |-> Zeros(self.rx_size),
                 future |-> Len(futures) + 1]
    IN  /\ futures' = Append(futures, NewFuture(c, name, call_id, waiter))
        /\ types' = [types EXCEPT ![c].members[name].calls = Put(@, call_id, call)]
        /\ nativeLog' = nativeLog \cup
               {[fn |-> "start_call", thread |-> th, handle |-> proxies[p].obj_handle]}

\* the argument lists user code passes
ArgLists == {<<>>, <<IntV(1)>>} \cup {<<ObjV(q)>> : q \in 1..Len(proxies)}

\* a destroyed proxy is handed to ObjectPtrCodec.serialize by this call
SerializesLost(p, name, args) ==
    LET self == types[proxies[p].cls].members[name]
    IN  /\ Len(self.inputs) = Len(args)
        /\ \E i \in 1..Len(args) :
              /\ self.inputs[i] = "object_ref"
              /\ args[i].t = "obj"
              /\ proxies[args[i].p].obj_handle = None
              /\ \A j \in 1..(i - 1) : serialize(self.inputs[j], args[j]).exc = "None"

\* The record of one operation on a proxy: whether the proxy was destroyed,
\* whether as many arguments were passed as the function has inputs, what
\* it raised ("None": nothing), whether it reached libfibre_start_call (and
\* with it the function's table of calls), and the thread th that ran it.
Attempt(op, p, name, args, exc, native, th) ==
    [op |-> op,
     lost |-> proxies[p].obj_handle = None,
     arity |-> Len(args) = Len(types[proxies[p].cls].members[name].inputs),
     ser_lost |-> SerializesLost(p, name, args),
     exc |-> exc, native |-> native,
     by |-> th,
     maps |-> IF native THEN {"_calls"} ELSE {}, invoked |-> "none"]

\* user code on the reactor thread calls function name through proxy p:
\* threading.current_thread() == libfibre_thread, so __call__ runs inline
CallInline(g, p, name, args) ==
    /\ Running(g) /\ libfibre_thread = g
    /\ p \in 1..Len(proxies)
    /\ IsFunction(proxies[p].cls, name)
    /\ types[proxies[p].cls].lf = g
    /\ IF CallException(p, name, args) = "None"
       THEN /\ Len(futures) < MaxFutures
            /\ StartCall(p, name, args, 0, ReactorThread(g))
            /\ attempts' = Attempt("call", p, name, args, "None", TRUE, ReactorThread(g))
       ELSE /\ attempts' = Attempt("call", p, name, args,
                                   CallException(p, name, args), FALSE,
                                   ReactorThread(g))
            /\ UNCHANGED <<futures, types, nativeLog>>
    /\ UNCHANGED <<objects, interfaces, proxies, bridge, rtVars, queue>>


---------------------------------------------------------------------------
(* Completion: RemoteFunction._on_completed                                *)

\* the bytes the native library writes: all zero, or a 1 in the last byte
Buffers(n) == {Zeros(n)} \cup {[i \in 1..n |-> IF i = n THEN 1 ELSE 0]}
Statuses == {kFibreOk, kFibreCancelled, kFibreClosed, kFibreInvalidArgument,
             kFibreInternalError, kFibreInternalError + 1}

\* the rx buffers the native library hands back with a status: the call's
\* rx_size bytes; the model leaves them zero when the call failed
RxBuffers(c, name, status) ==
    IF ~IsFunction(c, name) THEN {}
    ELSE IF status = kFibreOk THEN Buffers(types[c].members[name].rx_size)
         ELSE {Zeros(types[c].members[name].rx_size)}

\* the statuses a completion for ctx is drawn from: _on_completed raises the
\* KeyError of _calls.pop before it reads the status, so one status stands
\* for all when ctx is no key of _calls
CompletionStatuses(c, name, ctx) ==
    IF ~IsFunction(c, name) THEN {}
    ELSE IF ctx \in DOMAIN types[c].members[name].calls THEN Statuses
         ELSE {kFibreCancelled}

\* a decode loop that never advances
StuckPosMutant(pos, arg_length) == pos

\* pos += arg_length
Advance(pos, arg_length) == pos + arg_length

\* the loop over self._outputs from output i at offset pos: the decoded
\* values, or the exception of the first deserialize that raises
RECURSIVE DecodeFrom(_, _, _, _, _)
DecodeFrom(g, outputs, rx_buf, i, pos) ==
    IF i > Len(outputs) THEN [exc |-> "None", items |-> <<>>]
    ELSE LET arg_length == CodecLength(outputs[i])
             head == deserialize(g, outputs[i], SubSeq(rx_buf, pos + 1, pos + arg_length))
         IN  IF head.exc # "None" THEN [exc |-> head.exc]
             ELSE LET rest == DecodeFrom(g, outputs, rx_buf, i + 1, Advance(pos, arg_length))
                  IN  IF rest.exc # "None" THEN rest
                      ELSE [exc |-> "None", items |-> <<head.val>> \o rest.items]

\* what set_result receives: None, the one value, or the tuple
ResultValue(items) ==
    [kind |-> IF Len(items) = 0 THEN "none"
              ELSE IF Len(items) = 1 THEN "single" ELSE "tuple",
     items |-> items]

\* asyncio: a future that becomes done wakes the task awaiting it
Wake(q, g, fut) ==
    IF fut.waiter # 0 THEN Post(q, g, Item("wakeup", fut.waiter, 0)) ELSE q

\* a completion that leaves the Call record in place
KeepRecordMutant(calls, ctx) == calls

\* self._calls.pop(ctx)
PopCall(calls, ctx) == Pop(calls, ctx)

\* the native completion callback of function name of class c, with the
\* bytes the native library wrote to the rx buffer.  A ctx that is no key of
\* _calls is a KeyError and nothing changes; set_result and set_exception on
\* a future that is not pending raise InvalidStateError.
OnCompleted(c, name, ctx, status, rx) ==
    LET self == types[c].members[name]
        g == types[c].lf
    IN
    /\ c \in 1..Len(types) /\ IsFunction(c, name)
    /\ Running(g)
    /\ IF ctx \notin DOMAIN self.calls
       THEN UNCHANGED <<types, futures, queue>>
       ELSE LET f == self.calls[ctx].future
                done == [futures[f] EXCEPT !.completions = @ + 1]
                by == [done EXCEPT !.status = status, !.rx = rx,
                                   !.resolutions = @ + 1]
                out == DecodeFrom(g, self.outputs, rx, 1, 0)
            IN  /\ types' = [types EXCEPT ![c].members[name].calls = PopCall(@, ctx)]
                /\ IF futures[f].state # "pending"
                   THEN /\ futures' = [futures EXCEPT ![f] = done]
                        /\ UNCHANGED queue
                   ELSE IF status # kFibreOk
                   THEN /\ futures' = [futures EXCEPT ![f] =
                              [by EXCEPT !.state = "exception",
                                         !.exc = _get_exception(status)]]
                        /\ queue' = Wake(queue, g, futures[f])
                   ELSE IF out.exc # "None"
                   THEN /\ futures' = [futures EXCEPT ![f] = done]
                        /\ UNCHANGED queue
                   ELSE /\ futures' = [futures EXCEPT ![f] =
                              [by EXCEPT !.state = "result",
                                         !.value = ResultValue(out.items)]]
                        /\ queue' = Wake(queue, g, futures[f])
    /\ attempts' = NoAttempt
    /\ UNCHANGED <<objects, interfaces, proxies, bridge, rtVars, nativeLog>>

\* user code on the reactor thread cancels the future an inline call
\* returned (asyncio's Future.cancel); nothing in libfibre.py is subscribed
\* to it, so libfibre_cancel_call is not invoked
CancelFuture(f) ==
    /\ f \in 1..Len(futures)
    /\ Running(types[futures[f].cls].lf)
    /\ futures[f].waiter = 0
    /\ futures[f].state = "pending"
    /\ futures' = [futures EXCEPT ![f].state = "cancelled",
                                  ![f].exc = "CancelledError",
                                  ![f].resolutions = @ + 1]
    /\ attempts' = NoAttempt
    /\ UNCHANGED <<regVars, bridge, rtVars, queue, nativeLog>>

---------------------------------------------------------------------------
(* The cross-thread bridge: run_coroutine_threadsafe and func_async        *)

IdleBridge ==
    [pc |-> "idle", future |-> "pending", exc |-> "None", value |-> <<>>,
     task |-> "none", p |-> 0, name |-> "", args |-> <<>>, awaits |-> 0]

\* thread t, which is not the reactor thread, calls function name through
\* proxy p: instance._libfibre.loop (an AttributeError on a destroyed proxy),
\* then run_coroutine_threadsafe up to future.result()
CallFromThread(t, p, name, args) ==
    /\ bridge[t].pc = "idle"
    /\ p \in 1..Len(proxies)
    /\ IsFunction(proxies[p].cls, name)
    /\ IF proxies[p].libfibre = None
       THEN /\ attempts' = Attempt("call", p, name, args, "AttributeError", FALSE, t)
            /\ UNCHANGED <<bridge, queue>>
       ELSE /\ Running(proxies[p].libfibre)
            /\ attempts' = NoAttempt
            /\ bridge' = [bridge EXCEPT ![t] =
                  [IdleBridge EXCEPT !.pc = "blocked", !.task = "created",
                                     !.p = p, !.name = name, !.args = args]]
            /\ queue' = Post(queue, proxies[p].libfibre,
                             Item("ensure_future", t, 0))
    /\ UNCHANGED <<regVars, futures, rtVars, nativeLog>>

\* "except Exception" in func_async: asyncio.CancelledError is an Exception
\* before python 3.8 and a BaseException since; both builds are possible
CaughtAsException(exc, cancelled_is_exception) ==
    exc # "CancelledError" \/ cancelled_is_exception

\* the head of loop g's ready queue, which the reactor thread runs next
Next_(g, item) == Running(g) /\ queue[g] # <<>> /\ Head(queue[g]) = item

\* the loop runs asyncio.ensure_future(func_async()): the new task's first
\* step is scheduled
RunEnsureFuture(g, t) ==
    /\ Next_(g, Item("ensure_future", t, 0))
    /\ bridge' = [bridge EXCEPT ![t].task = "scheduled"]
    /\ queue' = [queue EXCEPT ![g] = Append(Tail(@), Item("step", t, 0))]
    /\ attempts' = NoAttempt
    /\ UNCHANGED <<regVars, futures, rtVars, nativeLog>>

\* the task's first step: await func(), func being self.__call__, which
\* runs inline when the loop's thread is libfibre_thread
RunStep(g, t) ==
    LET b == bridge[t]
    IN  /\ Next_(g, Item("step", t, 0))
        /\ libfibre_thread = g
        /\ IF CallException(b.p, b.name, b.args) = "None"
           THEN /\ Len(futures) < MaxFutures
                /\ StartCall(b.p, b.name, b.args, t, ReactorThread(g))
                /\ bridge' = [bridge EXCEPT ![t].task = "awaiting",
                                            ![t].awaits = Len(futures) + 1]
                /\ attempts' = Attempt("call", b.p, b.name, b.args, "None", TRUE,
                                       ReactorThread(g))
           ELSE /\ bridge' = [bridge EXCEPT ![t].task = "done",
                                            ![t].future = "exception",
                                            ![t].exc = CallException(b.p, b.name, b.args)]
                /\ attempts' = Attempt("call", b.p, b.name, b.args,
                                       CallException(b.p, b.name, b.args), FALSE,
                                       ReactorThread(g))
                /\ UNCHANGED <<futures, types, nativeLog>>
        /\ queue' = [queue EXCEPT ![g] = Tail(@)]
        /\ UNCHANGED <<objects, interfaces, proxies, rtVars>>

\* the task resumes after the awaited future became done: set_result,
\* set_exception, or the exception leaves func_async uncaught
RunWakeup(g, t, cancelled_is_exception) ==
    LET f == futures[bridge[t].awaits]
    IN  /\ Next_(g, Item("wakeup", t, 0))
        /\ bridge' = [bridge EXCEPT ![t] =
               IF f.state = "result"
               THEN [@ EXCEPT !.task = "done", !.future = "result", !.value = f.value]
               ELSE IF CaughtAsException(f.exc, cancelled_is_exception)
                    THEN [@ EXCEPT !.task = "done", !.future = "exception", !.exc = f.exc]
                    ELSE [@ EXCEPT !.task = "done"]]
        /\ queue' = [queue EXCEPT ![g] = Tail(@)]
        /\ attempts' = NoAttempt
    /\ UNCHANGED <<regVars, futures, rtVars, nativeLog>>

\* future.result() returns (or raises) in thread t
ThreadReturn(t) ==
    /\ bridge[t].pc = "blocked"
    /\ bridge[t].future # "pending"
    /\ bridge' = [bridge EXCEPT ![t] = IdleBridge]
    /\ attempts' = NoAttempt
    /\ UNCHANGED <<regVars, futures, rtVars, queue, nativeLog>>

---------------------------------------------------------------------------
(* The call dispatcher's specification: one runtime, started, its reactor  *)
(* in run_until_complete                                                   *)

ObjHandles == 1..MaxObj
IntfHandles == 1..MaxIntf

\* run_event_loop: whether terminate_libfibre is done, and the coroutine
\* the loop is inside of.  The reactor's record also holds the eventfd_map
\* of its LibFibre and the file descriptors its loop watches for reading
\* and for writing, and its timer_map: timer id -> the TimerHandle that
\* loop.call_later returned.  A TimerHandle is the number of the call_later
\* that made it and whether the loop has run its callback; call_laters
\* counts the calls of loop.call_later, and native_timers are the timers
\* the native library holds: the ids _call_later returned to it and that it
\* has not cancelled.
NoItem == [kind |-> "none", t |-> 0, obj |-> 0]
NewReactor ==
    [term |-> FALSE, eventfd_map |-> EmptyMap, readers |-> {}, writers |-> {},
     timer_map |-> EmptyMap, call_laters |-> 0, native_timers |-> {}]

\* a thread: where it stands, the subscriber callbacks it has yet to run
\* inside Event.set or Event.subscribe, where it continues after them, the
\* coroutine it is inside of (a reactor thread), and the arguments, the
\* result list and the objects seen by the filter of its find_any (the
\* serial number "" is None)
Thread(pc) ==
    [pc |-> pc, todo |-> <<>>, ret |-> "", cur |-> NoItem, serial |-> "",
     chan |-> 0, timeout |-> FALSE, result |-> {}, seen |-> {}]

InitRegistry ==
    /\ objects = <<EmptyMap>>
    /\ interfaces = <<EmptyMap>>
    /\ types = <<>>
    /\ proxies = <<>>

Init ==
    /\ InitRegistry
    /\ discovery_processes = <<EmptyMap>>
    /\ queue = << <<>> >>
    /\ reactor = <<NewReactor>>
    /\ futures = <<>>
    /\ bridge = [t \in Callers |-> IdleBridge]
    /\ attempts = NoAttempt
    /\ nativeLog = {[fn |-> "open", handle |-> 1]}
    /\ nativeDiscovery = {}
    /\ libfibre = 1
    /\ terminate_libfibre = 1
    /\ libfibre_thread = 1
    /\ libfibre_refcount = 1
    /\ lock = 0
    /\ events = EmptyMap
    /\ thr = [th \in AllThreads |->
                IF th \in Threads THEN Thread("idle")
                ELSE IF th = ReactorThread(1) THEN Thread("running")
                     ELSE Thread("none")]

Next ==
    \/ \E obj \in ObjHandles, intf \in IntfHandles :
          Len(proxies) < MaxProxies /\ ConstructObject(1, obj, intf)
    \/ \E obj \in ObjHandles : DestroyObject(1, obj)
    \/ \E ctx \in IntfHandles, func \in FuncHandles, name \in FuncNames,
          sig \in Signatures : OnFunctionAdded(1, ctx, func, name, sig)
    \/ \E p \in 1..MaxProxies, name \in FuncNames, args \in ArgLists :
          CallInline(1, p, name, args)
    \/ \E t \in Callers, p \in 1..MaxProxies, name \in FuncNames, args \in ArgLists :
          CallFromThread(t, p, name, args)
    \/ \E t \in Callers : RunEnsureFuture(1, t)
    \/ \E t \in Callers : RunStep(1, t)
    \/ \E t \in Callers, cie \in BOOLEAN : RunWakeup(1, t, cie)
    \/ \E t \in Callers : ThreadReturn(t)
    \/ \E c \in 1..Len(types), name \in FuncNames, ctx \in 1..MaxFutures :
          \E status \in CompletionStatuses(c, name, ctx) :
          \E rx \in RxBuffers(c, name, status) : OnCompleted(c, name, ctx, status, rx)
    \/ \E f \in 1..MaxFutures : CancelFuture(f)

Spec == Init /\ [][Next]_vars


---------------------------------------------------------------------------
(* The Event of fibre.utils, which is not part of the sources: a one-shot  *)
(* signal whose subscribers are invoked synchronously, once each, by the   *)
(* thread that sets it.  Whether subscribing to a signal that is already   *)
(* set invokes the subscriber at once is a choice of each step.            *)

\* the done_signal of thread t's find_any is event t
ChanEv == MaxThreads + 1
NewEvent == [set |-> FALSE, subs |-> <<>>]

\* the subscriber callbacks of libfibre.py
DecrementCb == [k |-> "decrement", lf |-> 0, d |-> 0]
StopCb(lf, d) == [k |-> "stop", lf |-> lf, d |-> d]

\* Event.subscribe
Subscribed(ev, e, cb) == [ev EXCEPT ![e].subs = Append(@, cb)]

\* Event.set by a thread whose record is me, which continues at ret: the
\* subscribers are left for the thread to run, in order
AfterSet(me, e, ret) ==
    IF events[e].set \/ events[e].subs = <<>> THEN [me EXCEPT !.pc = ret]
    ELSE [me EXCEPT !.pc = "subs", !.todo = events[e].subs, !.ret = ret]

---------------------------------------------------------------------------
(* Runtime lifecycle: increment_libfibre_refcount, decrement_lib_refcount, *)
(* run_event_loop                                                          *)

\* an exception that leaves the coroutine ends the reactor thread
ExcRetDiesMutant(th) == IF th \in Threads THEN "raised" ELSE "exited"

\* where a thread continues when the code it runs raises: find_any raises
\* in a user thread; in a reactor thread the coroutine ends, its task keeps
\* the exception, and the loop carries on
ExcRet(th) == IF th \in Threads THEN "raised" ELSE "running"

\* increment_libfibre_refcount by thread th, whose record is me and which
\* continues at ret; q is the ready queues.  The thread keeps the lock
\* while libfibre is None.
Increment(th, me, ret, q) ==
    /\ lock = 0
    /\ libfibre_refcount' = libfibre_refcount + 1
    /\ lock' = IF libfibre = None THEN th ELSE 0
    /\ LET entered == IF libfibre = None
                      THEN [me EXCEPT !.pc = "inc_spin", !.ret = ret]
                      ELSE [me EXCEPT !.pc = ret]
           g == Len(reactor) + 1
       IN  IF libfibre_refcount = 0
           THEN /\ Len(reactor) < MaxGen
                /\ reactor' = Append(reactor, NewReactor)
                /\ objects' = Append(objects, EmptyMap)
                /\ interfaces' = Append(interfaces, EmptyMap)
                /\ discovery_processes' = Append(discovery_processes, EmptyMap)
                /\ queue' = Append(q, <<>>)
                /\ libfibre_thread' = g
                /\ thr' = [thr EXCEPT ![th] = entered,
                                      ![ReactorThread(g)] = Thread("starting")]
           ELSE /\ queue' = q
                /\ thr' = [thr EXCEPT ![th] = entered]
                /\ UNCHANGED <<reactor, objects, interfaces, discovery_processes,
                               libfibre_thread>>

\* while libfibre is None: time.sleep(0.1), then the lock is released
IncSpin(th) ==
    /\ thr[th].pc = "inc_spin"
    /\ libfibre # None
    /\ lock' = 0
    /\ thr' = [thr EXCEPT ![th].pc = thr[th].ret]
    /\ attempts' = NoAttempt
    /\ UNCHANGED <<regVars, callVars, discovery_processes, reactor, nativeDiscovery,
                   libfibre, terminate_libfibre, libfibre_thread, libfibre_refcount,
                   events, queue, nativeLog>>

\* the native discoveries after libfibre_stop_discovery(ctx of lf, handle)
StoppedDiscovery(lf, handle) ==
    {IF nd.lf = lf /\ nd.handle = handle /\ nd.state = "running"
     THEN [nd EXCEPT !.state = "stopped"] ELSE nd : nd \in nativeDiscovery}

\* a release whose assert never fails
ReleaseNoAssertMutant(th) ==
    IF libfibre_refcount - 1 # 0 THEN "None"
    ELSE IF libfibre = None THEN "AttributeError"
    ELSE IF libfibre_thread = None THEN "AttributeError"
    ELSE "None"

\* what decrement_lib_refcount raises in thread th ("None": it returns):
\* nothing while the counter stays positive; at zero libfibre.loop when
\* libfibre is None, the assert, or libfibre_thread.join() when
\* libfibre_thread is None
ReleaseException(th) ==
    IF libfibre_refcount - 1 # 0 THEN "None"
    ELSE IF libfibre = None THEN "AttributeError"
    ELSE IF libfibre_thread = None THEN "AttributeError"
    ELSE IF th = ReactorThread(libfibre_thread) THEN "AssertionError"
    ELSE "None"

\* thread th runs the next subscriber callback of the signal it has set (or
\* subscribed to): the lambda of start_discovery, which reads the handle the
\* discovery record holds now, or decrement_lib_refcount, up to the join
RunSub(th) ==
    LET me == thr[th]
        cb == Head(me.todo)
        rest == Tail(me.todo)
        cont == [me EXCEPT !.todo = rest, !.pc = IF rest = <<>> THEN me.ret ELSE "subs"]
        raised == [me EXCEPT !.todo = <<>>, !.pc = ExcRet(th), !.cur = NoItem]
    IN  /\ me.pc = "subs" /\ me.todo # <<>>
        /\ IF cb.k = "stop"
           THEN LET handle == discovery_processes[cb.lf][cb.d].handle
                IN  /\ nativeLog' = nativeLog \cup
                          {[fn |-> "stop_discovery", handle |-> handle]}
                    /\ nativeDiscovery' = StoppedDiscovery(cb.lf, handle)
                    /\ thr' = [thr EXCEPT ![th] = cont]
                    /\ UNCHANGED <<libfibre_refcount, lock, queue>>
           ELSE /\ lock = 0
                /\ libfibre_refcount' = libfibre_refcount - 1
                /\ UNCHANGED <<nativeLog, nativeDiscovery>>
                /\ IF libfibre_refcount - 1 # 0
                   THEN /\ thr' = [thr EXCEPT ![th] = cont]
                        /\ UNCHANGED <<lock, queue>>
                   ELSE IF libfibre = None
                   THEN /\ thr' = [thr EXCEPT ![th] = raised]
                        /\ UNCHANGED <<lock, queue>>
                   ELSE /\ queue' = Post(queue, libfibre, Item("terminate", 0, 0))
                        /\ IF libfibre_thread = None \/ th = ReactorThread(libfibre_thread)
                           THEN /\ thr' = [thr EXCEPT ![th] = raised]
                                /\ UNCHANGED lock
                           ELSE /\ thr' = [thr EXCEPT ![th] =
                                             [me EXCEPT !.todo = rest, !.pc = "dec_join"]]
                                /\ lock' = th
        /\ attempts' = IF cb.k = "stop" THEN NoAttempt
                       ELSE [NoAttempt EXCEPT !.op = "release", !.by = th,
                                              !.exc = ReleaseException(th)]
        /\ UNCHANGED <<regVars, callVars, discovery_processes, reactor, libfibre,
                       terminate_libfibre, libfibre_thread, events>>

\* libfibre_thread.join() returns, libfibre_thread = None, the lock is released
DecJoin(th) ==
    /\ thr[th].pc = "dec_join"
    /\ thr[ReactorThread(libfibre_thread)].pc = "exited"
    /\ libfibre_thread' = None
    /\ lock' = 0
    /\ thr' = [thr EXCEPT ![th].pc = IF thr[th].todo = <<>> THEN thr[th].ret ELSE "subs"]
    /\ attempts' = NoAttempt
    /\ UNCHANGED <<regVars, callVars, discovery_processes, reactor, nativeDiscovery,
                   libfibre, terminate_libfibre, libfibre_refcount, events, queue,
                   nativeLog>>

\* the reactor thread of generation g runs run_event_loop up to
\* run_until_complete
ReactorInit(g) ==
    /\ g \in 1..Len(reactor)
    /\ thr[ReactorThread(g)].pc = "starting"
    /\ terminate_libfibre' = g
    /\ libfibre' = g
    /\ nativeLog' = nativeLog \cup {[fn |-> "open", handle |-> g]}
    /\ thr' = [thr EXCEPT ![ReactorThread(g)].pc = "running"]
    /\ attempts' = NoAttempt
    /\ UNCHANGED <<regVars, callVars, discovery_processes, reactor, nativeDiscovery,
                   libfibre_thread, libfibre_refcount, lock, events, queue>>

\* the loop runs the lambda of decrement_lib_refcount:
\* terminate_libfibre.set_result(True), an InvalidStateError when it is done
RunTerminate(g) ==
    /\ Next_(g, Item("terminate", 0, 0))
    /\ queue' = [queue EXCEPT ![g] = Tail(@)]
    /\ reactor' = IF terminate_libfibre = None THEN reactor
                  ELSE [reactor EXCEPT ![terminate_libfibre].term = TRUE]
    /\ attempts' = NoAttempt
    /\ UNCHANGED <<regVars, callVars, discovery_processes, nativeDiscovery, libfibre,
                   terminate_libfibre, libfibre_thread, libfibre_refcount, lock,
                   events, thr, nativeLog>>

\* the proxies registered with LibFibre lf
Registered(lf) == {objects[lf][h] : h \in DOMAIN objects[lf]}

\* the number of registered proxies of class c
LiveOf(lf, c) == Cardinality({p \in Registered(lf) : proxies[p].cls = c})

\* the interface handles the destruction of every registered proxy evicts:
\* those of the classes whose refcount passes through 0
Evicted(lf) ==
    {types[c].handle : c \in {x \in 1..Len(types) :
        /\ types[x].lf = lf
        /\ types[x].refcount >= 1
        /\ types[x].refcount <= LiveOf(lf, x)}}

\* run_event_loop after run_until_complete has returned: libfibre_close,
\* every registered proxy is destroyed, and unless the assert fails libfibre
\* becomes None; all of it through the global libfibre
ReactorClose(g) ==
    /\ Running(g) /\ reactor[g].term
    /\ thr' = [thr EXCEPT ![ReactorThread(g)].pc = "exited"]
    /\ IF libfibre = None
       THEN UNCHANGED <<regVars, nativeLog, nativeDiscovery, libfibre>>
       ELSE /\ nativeLog' = nativeLog \cup {[fn |-> "close", handle |-> libfibre]}
            /\ nativeDiscovery' =
                  {IF nd.lf = libfibre THEN [nd EXCEPT !.state = "closed"] ELSE nd :
                      nd \in nativeDiscovery}
            /\ proxies' = [p \in 1..Len(proxies) |->
                  IF p \in Registered(libfibre) THEN Destroyed(p) ELSE proxies[p]]
            /\ types' = [c \in 1..Len(types) |->
                  [types[c] EXCEPT !.refcount = @ - LiveOf(libfibre, c)]]
            /\ objects' = [objects EXCEPT ![libfibre] = EmptyMap]
            /\ interfaces' = [interfaces EXCEPT ![libfibre] =
                  [h \in (DOMAIN @) \ Evicted(libfibre) |-> @[h]]]
            /\ libfibre' = IF DOMAIN interfaces[libfibre] \subseteq Evicted(libfibre)
                           THEN None ELSE libfibre
    /\ attempts' = NoAttempt
    /\ UNCHANGED <<callVars, discovery_processes, reactor, terminate_libfibre,
                   libfibre_thread, libfibre_refcount, lock, events, queue>>

---------------------------------------------------------------------------
(* Discovery: LibFibre.start_discovery, LibFibre._on_found_object,         *)
(* find_all, find_any                                                      *)

\* the loop runs the lambda find_all posted for thread t's find_any:
\* libfibre.start_discovery (libfibre being the global), which subscribes
\* the stop callback while the record's handle is still 0 and then starts
\* the native discovery
RunStartDiscovery(g, t, invoke_if_set) ==
    /\ Next_(g, Item("start_discovery", t, 0))
    /\ queue' = [queue EXCEPT ![g] = Tail(@)]
    /\ IF libfibre = None
       THEN UNCHANGED <<discovery_processes, nativeDiscovery, nativeLog, events>>
       ELSE LET discovery_id == NewId(discovery_processes[libfibre])
                handle == Cardinality(nativeDiscovery) + 1
            IN  /\ discovery_processes' = [discovery_processes EXCEPT ![libfibre] =
                      Put(@, discovery_id, [handle |-> handle, callback |-> t])]
                /\ events' = Subscribed(events, t, StopCb(libfibre, discovery_id))
                /\ nativeDiscovery' = nativeDiscovery \cup
                      {[lf |-> libfibre, handle |-> handle, id |-> discovery_id,
                        by |-> t, state |-> "running", found |-> {}]}
                /\ nativeLog' = nativeLog
                      \cup {[fn |-> "start_discovery", handle |-> handle]}
                      \cup (IF events[t].set /\ invoke_if_set
                            THEN {[fn |-> "stop_discovery", handle |-> 0]} ELSE {})
    /\ attempts' = NoAttempt
    /\ UNCHANGED <<regVars, callVars, reactor, libfibre, terminate_libfibre,
                   libfibre_thread, libfibre_refcount, lock, thr>>

\* the native "found object" notification of discovery ctx for object obj,
\* which is registered: the session's callback is scheduled as a task (and
\* the proxy is noted as one the session's filter is handed)
OnFoundObject(g, ctx, obj) ==
    /\ Running(g)
    /\ obj \in DOMAIN objects[g]
    /\ ctx \in DOMAIN discovery_processes[g]
    /\ \E nd \in nativeDiscovery :
          /\ nd.lf = g /\ nd.id = ctx /\ nd.state = "running" /\ obj \notin nd.found
          /\ nativeDiscovery' = (nativeDiscovery \ {nd})
                                   \cup {[nd EXCEPT !.found = @ \cup {obj}]}
    /\ queue' = Post(queue, g, Item("filter", discovery_processes[g][ctx].callback,
                                    objects[g][obj]))
    /\ thr' = [thr EXCEPT ![discovery_processes[g][ctx].callback].seen =
                   @ \cup {objects[g][obj]}]
    /\ attempts' = NoAttempt
    /\ UNCHANGED <<regVars, callVars, discovery_processes, reactor, libfibre,
                   terminate_libfibre, libfibre_thread, libfibre_refcount, lock,
                   events, nativeLog>>

\* the task of on_object_discovered_filter starts: increment_libfibre_refcount
RunFilter(g, t, p) ==
    /\ Next_(g, Item("filter", t, p))
    /\ Increment(ReactorThread(g),
                 [thr[ReactorThread(g)] EXCEPT !.cur = Item("filter", t, p)],
                 "filter_sub", [queue EXCEPT ![g] = Tail(@)])
    /\ attempts' = NoAttempt
    /\ UNCHANGED <<types, proxies, callVars, nativeDiscovery, libfibre,
                   terminate_libfibre, events, nativeLog>>

\* channel_termination_token.subscribe(...): an AttributeError when the
\* token is None, which ends the coroutine
FilterSubscribe(g, invoke_if_set) ==
    LET th == ReactorThread(g)
        me == thr[th]
        chan == thr[me.cur.t].chan
    IN  /\ g \in 1..Len(reactor)
        /\ me.pc = "filter_sub"
        /\ IF chan = None
           THEN /\ thr' = [thr EXCEPT ![th] = [me EXCEPT !.pc = ExcRet(th), !.cur = NoItem]]
                /\ UNCHANGED events
           ELSE /\ events' = Subscribed(events, chan, DecrementCb)
                /\ thr' = [thr EXCEPT ![th] =
                      IF events[chan].set /\ invoke_if_set
                      THEN [me EXCEPT !.pc = "subs", !.todo = <<DecrementCb>>,
                                      !.ret = "filter_cb"]
                      ELSE [me EXCEPT !.pc = "filter_cb"]]
        /\ attempts' = NoAttempt
        /\ UNCHANGED <<regVars, callVars, discovery_processes, reactor, nativeDiscovery,
                       libfibre, terminate_libfibre, libfibre_thread,
                       libfibre_refcount, lock, queue, nativeLog>>

\* the serial number test, a NameError when a serial number is required
\* (the module never binds the name fibre), else did_discover_object:
\* result.append(obj) and done_signal.set(), on the reactor thread
FilterCallback(g) ==
    LET th == ReactorThread(g)
        me == thr[th]
        t == me.cur.t
    IN  /\ g \in 1..Len(reactor)
        /\ me.pc = "filter_cb"
        /\ IF thr[t].serial # ""
           THEN /\ thr' = [thr EXCEPT ![th] = [me EXCEPT !.pc = ExcRet(th), !.cur = NoItem]]
                /\ UNCHANGED events
           ELSE /\ thr' = [thr EXCEPT
                      ![t].result = @ \cup {me.cur.obj},
                      ![th] = AfterSet([me EXCEPT !.cur = NoItem], t, "running")]
                /\ events' = [events EXCEPT ![t].set = TRUE]
        /\ attempts' = NoAttempt
        /\ UNCHANGED <<regVars, callVars, discovery_processes, reactor, nativeDiscovery,
                       libfibre, terminate_libfibre, libfibre_thread,
                       libfibre_refcount, lock, queue, nativeLog>>

Serials == {"", "SN123"}
Tokens == {None, ChanEv}
\* every find_any is given a timeout: one without waits as one whose
\* timeout never elapses
Timeouts == {TRUE}

\* thread t calls find_any: done_signal = Event(None), then find_all up to
\* its increment_libfibre_refcount
FindAny(t, serial_number, channel_termination_token, timeout) ==
    /\ thr[t].pc = "idle"
    /\ events' = Put(events, t, NewEvent)
    /\ Increment(t, [thr[t] EXCEPT !.serial = serial_number,
                                   !.chan = channel_termination_token,
                                   !.timeout = timeout],
                 "post", queue)
    /\ attempts' = NoAttempt
    /\ UNCHANGED <<types, proxies, callVars, nativeDiscovery, libfibre,
                   terminate_libfibre, nativeLog>>

\* the rest of find_all: the release is subscribed to done_signal and
\* start_discovery is posted to libfibre.loop
FindAllPost(t) ==
    /\ thr[t].pc = "post"
    /\ events' = Subscribed(events, t, DecrementCb)
    /\ IF libfibre = None
       THEN /\ thr' = [thr EXCEPT ![t].pc = "raised"]
            /\ UNCHANGED queue
       ELSE /\ thr' = [thr EXCEPT ![t].pc = "wait"]
            /\ queue' = Post(queue, libfibre, Item("start_discovery", t, 0))
    /\ attempts' = NoAttempt
    /\ UNCHANGED <<regVars, callVars, discovery_processes, reactor, nativeDiscovery,
                   libfibre, terminate_libfibre, libfibre_thread, libfibre_refcount,
                   lock, nativeLog>>

\* done_signal.wait returns because the signal is set; the set() of the
\* finally clause does nothing, and find_any returns
WaitDone(t) ==
    /\ thr[t].pc = "wait"
    /\ events[t].set
    /\ thr' = [thr EXCEPT ![t].pc = "returned"]
    /\ attempts' = NoAttempt
    /\ UNCHANGED <<regVars, callVars, discovery_processes, reactor, nativeDiscovery,
                   libfibre, terminate_libfibre, libfibre_thread, libfibre_refcount,
                   lock, events, queue, nativeLog>>

\* done_signal.wait raises TimeoutError (a timeout was given); the finally
\* clause sets done_signal, in thread t
WaitTimeout(t) ==
    /\ thr[t].pc = "wait"
    /\ thr[t].timeout
    /\ thr' = [thr EXCEPT ![t] = AfterSet(thr[t], t, "returned")]
    /\ events' = [events EXCEPT ![t].set = TRUE]
    /\ attempts' = NoAttempt
    /\ UNCHANGED <<regVars, callVars, discovery_processes, reactor, nativeDiscovery,
                   libfibre, terminate_libfibre, libfibre_thread, libfibre_refcount,
                   lock, queue, nativeLog>>

\* user code in thread t, outside find_any, sets the channel termination
\* token
SetChannel(t) ==
    /\ thr[t].pc \in {"idle", "returned"}
    /\ ~events[ChanEv].set
    /\ thr' = [thr EXCEPT ![t] = AfterSet(thr[t], ChanEv, thr[t].pc)]
    /\ events' = [events EXCEPT ![ChanEv].set = TRUE]
    /\ attempts' = NoAttempt
    /\ UNCHANGED <<regVars, callVars, discovery_processes, reactor, nativeDiscovery,
                   libfibre, terminate_libfibre, libfibre_thread, libfibre_refcount,
                   lock, queue, nativeLog>>

---------------------------------------------------------------------------
(* The runtime's specification: nothing is started; user threads call      *)
(* find_any, once each, and set the channel termination token              *)

InitRuntime ==
    /\ objects = <<>> /\ interfaces = <<>> /\ types = <<>> /\ proxies = <<>>
    /\ discovery_processes = <<>>
    /\ queue = <<>>
    /\ reactor = <<>>
    /\ futures = <<>>
    /\ bridge = [t \in Callers |-> IdleBridge]
    /\ attempts = NoAttempt
    /\ nativeLog = {}
    /\ nativeDiscovery = {}
    /\ libfibre = None
    /\ terminate_libfibre = None
    /\ libfibre_thread = None
    /\ libfibre_refcount = 0
    /\ lock = 0
    /\ events = [e \in {ChanEv} |-> NewEvent]
    /\ thr = [th \in AllThreads |-> IF th \in Threads THEN Thread("idle")
                                     ELSE Thread("none")]

NextRuntime ==
    \/ \E t \in Threads, sn \in Serials, tok \in Tokens, timeout \in Timeouts :
          FindAny(t, sn, tok, timeout)
    \/ \E t \in Threads : FindAllPost(t)
    \/ \E t \in Threads : WaitDone(t)
    \/ \E t \in Threads : WaitTimeout(t)
    \/ \E t \in Threads : SetChannel(t)
    \/ \E th \in AllThreads : IncSpin(th)
    \/ \E th \in AllThreads : RunSub(th)
    \/ \E th \in AllThreads : DecJoin(th)
    \/ \E g \in 1..MaxGen : ReactorInit(g)
    \/ \E g \in 1..MaxGen : RunTerminate(g)
    \/ \E g \in 1..MaxGen : ReactorClose(g)
    \/ \E g \in 1..MaxGen, t \in Threads, inv \in BOOLEAN : RunStartDiscovery(g, t, inv)
    \/ \E g \in 1..MaxGen, ctx \in 1..MaxThreads, obj \in ObjHandles :
          OnFoundObject(g, ctx, obj)
    \/ \E g \in 1..MaxGen, t \in Threads, p \in 1..MaxProxies : RunFilter(g, t, p)
    \/ \E g \in 1..MaxGen, inv \in BOOLEAN : FilterSubscribe(g, inv)
    \/ \E g \in 1..MaxGen : FilterCallback(g)
    \/ \E g \in 1..MaxGen, obj \in ObjHandles, intf \in IntfHandles :
          Len(proxies) < MaxProxies /\ ConstructObject(g, obj, intf)
    \/ \E g \in 1..MaxGen, obj \in ObjHandles : DestroyObject(g, obj)

SpecRuntime == InitRuntime /\ [][NextRuntime]_vars

---------------------------------------------------------------------------
(* Attribute descriptors: LibFibre._on_attribute_added, RemoteAttribute,   *)
(* and the notifications that report a removed descriptor                  *)

AttrNames == {"a"}
AttrHandles == {1}
\* the names of the functions of a property's interface
PropertyFuncNames == {"read", "exchange"}
\* the interface handles of an attribute's object: those objects are
\* constructed with, and one no object is constructed with
SubIntfHandles == 1..(MaxIntf + 1)

\* A string is the sequence of its pieces (<<>> is also None):
\* str.startswith and str.endswith
startswith(s, prefix) ==
    Len(s) >= Len(prefix) /\ SubSeq(s, 1, Len(prefix)) = prefix
endswith(s, suffix) ==
    Len(s) >= Len(suffix) /\ SubSeq(s, Len(s) - Len(suffix) + 1, Len(s)) = suffix

\* the sub-interface names the native library reports
SubIntfNames ==
    { <<>>,
      <<"fibre.Property<", "float", ">">>,
      <<"fibre.Property<", "readwrite ", "float", ">">>,
      <<"fibre.Property<", "readwrite ", "float">> }

\* the signature the native library reports for read and exchange
PropertySignatures == {sig \in Signatures : sig.inputs = <<>>}

magic_getter(subintf_name) ==
    /\ subintf_name # <<>>
    /\ startswith(subintf_name, <<"fibre.Property<">>)
    /\ endswith(subintf_name, <<">">>)

\* a setter test that does not look at the end of the name
MagicSetterAnyEndMutant(subintf_name) ==
    /\ subintf_name # <<>>
    /\ startswith(subintf_name, <<"fibre.Property<", "readwrite ">>)

magic_setter(subintf_name) ==
    /\ subintf_name # <<>>
    /\ startswith(subintf_name, <<"fibre.Property<", "readwrite ">>)
    /\ endswith(subintf_name, <<">">>)

\* "_" + name + "_property"
PropertyName(name) == "_" \o name \o "_property"

RemoteAttribute(g, attr_handle, intf_handle, intf_name, getter, setter) ==
    [kind |-> "attribute", lf |-> g, handle |-> attr_handle,
     intf_handle |-> intf_handle, intf_name |-> intf_name,
     magic_getter |-> getter, magic_setter |-> setter]

IsAttribute(c, name) ==
    /\ name \in DOMAIN types[c].members
    /\ types[c].members[name].kind = "attribute"

\* the native "attribute added" notification for interface ctx (a KeyError
\* when ctx is not cached).  A name is reported once per class.
OnAttributeAdded(g, ctx, attr, name, subintf, subintf_name) ==
    /\ Running(g)
    /\ IF ctx \in DOMAIN interfaces[g]
       THEN LET c == interfaces[g][ctx]
                getter == magic_getter(subintf_name)
                setter == magic_setter(subintf_name)
                m1 == Put(types[c].members, name,
                          RemoteAttribute(g, attr, subintf, subintf_name,
                                          getter, setter))
            IN  /\ name \notin DOMAIN types[c].members
                /\ types' = [types EXCEPT ![c].members =
                      IF getter \/ setter
                      THEN Put(m1, PropertyName(name),
                               RemoteAttribute(g, attr, subintf, subintf_name,
                                               FALSE, FALSE))
                      ELSE m1]
       ELSE UNCHANGED types
    /\ attempts' = NoAttempt
    /\ UNCHANGED <<objects, interfaces, proxies, callVars, rtVars, queue, nativeLog>>

\* the record of a "removed" notification: its interface and the handle of
\* the descriptor it reports
Notified(op, g, ctx, handle) ==
    [op |-> op, lost |-> FALSE, arity |-> TRUE, ser_lost |-> FALSE,
     exc |-> "None", native |-> FALSE, by |-> ReactorThread(g), maps |-> {},
     invoked |-> "none", ctx |-> ctx, handle |-> handle]

\* the native "attribute removed" notification: print("attribute removed")
OnAttributeRemoved(g, ctx, attr) ==
    /\ Running(g)
    /\ attempts' = Notified("attribute_removed", g, ctx, attr)
    /\ UNCHANGED <<regVars, callVars, rtVars, queue, nativeLog>>

\* the native "function removed" notification: print("function removed")
OnFunctionRemoved(g, ctx, func) ==
    /\ Running(g)
    /\ attempts' = Notified("function_removed", g, ctx, func)
    /\ UNCHANGED <<regVars, callVars, rtVars, queue, nativeLog>>

\* a thread that runs user code: a user thread outside find_any, or a
\* reactor thread between two callbacks
InUserCode(th) ==
    \/ th \in Threads /\ thr[th].pc \in {"idle", "returned"}
    \/ \E g \in 1..Len(reactor) : th = ReactorThread(g) /\ Running(g)

\* the statuses libfibre_get_attribute returns: a destroyed proxy passes
\* the object handle None, which the native library cannot resolve
GetAttributeStatuses(p) ==
    IF proxies[p].obj_handle = None THEN {kFibreInvalidArgument}
    ELSE {kFibreOk, kFibreInvalidArgument}

\* what RemoteAttribute._get_obj raises ("None": it returns
\* _objects[obj_handle]) when the native library answers status and writes
\* obj_handle
GetObjException(d, status, obj_handle) ==
    IF status # kFibreOk THEN _get_exception(status)
    ELSE IF obj_handle \notin DOMAIN objects[d.lf] THEN "KeyError"
         ELSE "None"

\* the member an access goes on to call on the object _get_obj returned
\* ("none": it returns the object itself)
Invoked(d, write) ==
    IF write THEN "exchange" ELSE IF d.magic_getter THEN "read" ELSE "none"

\* The record of an access by thread th to attribute name of proxy p: what
\* it raised, that it reached libfibre_get_attribute, the maps _get_obj read or wrote
\* (interfaces in _load_py_intf, _objects after an ok status) and the member
\* it went on to call, an AttributeError when the object's class has none
\* of that name.
Access(op, th, p, name, write, status, obj_handle) ==
    LET d == types[proxies[p].cls].members[name]
        e == GetObjException(d, status, obj_handle)
        member == Invoked(d, write)
        found == \/ member = "none"
                 \/ member \in DOMAIN
                       types[proxies[objects[d.lf][obj_handle]].cls].members
    IN  [op |-> op, lost |-> proxies[p].obj_handle = None, arity |-> TRUE,
         ser_lost |-> FALSE,
         exc |-> IF e # "None" THEN e
                 ELSE IF found THEN "None" ELSE "AttributeError",
         native |-> TRUE, by |-> th,
         maps |-> {"interfaces"} \cup (IF status = kFibreOk THEN {"_objects"} ELSE {}),
         invoked |-> IF e = "None" /\ found THEN member ELSE "none",
         p |-> p, name |-> name]

\* the record of a write that __set__ refuses
NotWritable(th, p, name) ==
    [op |-> "set", lost |-> proxies[p].obj_handle = None, arity |-> TRUE,
     ser_lost |-> FALSE, exc |-> "Exception", native |-> FALSE, by |-> th,
     maps |-> {}, invoked |-> "none", p |-> p, name |-> name]

\* RemoteAttribute._get_obj of descriptor d for proxy p, on the calling
\* thread: _load_py_intf on the descriptor's LibFibre, then
\* libfibre_get_attribute
_get_obj(d, p) ==
    /\ CanLoad(d.lf, d.intf_handle)
    /\ types' = LoadedTypes(d.lf, d.intf_name, d.intf_handle)
    /\ interfaces' = LoadedInterfaces(d.lf, d.intf_handle)
    /\ nativeLog' = LoadedLog(d.lf, d.intf_handle)

\* thread th reads attribute name of proxy p: RemoteAttribute.__get__; the
\* call of read() that follows for a magic getter is the dispatcher's
__get__(th, p, name, status, obj_handle) ==
    /\ InUserCode(th)
    /\ p \in 1..Len(proxies)
    /\ IsAttribute(proxies[p].cls, name)
    /\ status \in GetAttributeStatuses(p)
    /\ LET d == types[proxies[p].cls].members[name]
       IN  /\ _get_obj(d, p)
           /\ attempts' = Access("get", th, p, name, FALSE, status, obj_handle)
    /\ UNCHANGED <<objects, proxies, callVars, rtVars, queue>>

\* thread th writes attribute name of proxy p: RemoteAttribute.__set__; the
\* call of exchange(val) that follows is the dispatcher's
__set__(th, p, name, status, obj_handle) ==
    /\ InUserCode(th)
    /\ p \in 1..Len(proxies)
    /\ IsAttribute(proxies[p].cls, name)
    /\ status \in GetAttributeStatuses(p)
    /\ LET d == types[proxies[p].cls].members[name]
       IN  IF d.magic_setter
           THEN /\ _get_obj(d, p)
                /\ attempts' = Access("set", th, p, name, TRUE, status, obj_handle)
           ELSE /\ attempts' = NotWritable(th, p, name)
                /\ UNCHANGED <<types, interfaces, nativeLog>>
    /\ UNCHANGED <<objects, proxies, callVars, rtVars, queue>>

---------------------------------------------------------------------------
(* The interface types' specification: one runtime, started by thread 1's  *)
(* find_any, which waits for its done signal; the native library reports   *)
(* objects, functions and attributes, and user code reads and writes       *)
(* attributes until the timeout of the find_any releases the runtime       *)

InitIntf ==
    /\ InitRegistry
    /\ discovery_processes = <<Put(EmptyMap, 1, [handle |-> 1, callback |-> 1])>>
    /\ queue = << <<>> >>
    /\ reactor = <<NewReactor>>
    /\ futures = <<>>
    /\ bridge = [t \in Callers |-> IdleBridge]
    /\ attempts = NoAttempt
    /\ nativeLog = {[fn |-> "open", handle |-> 1],
                    [fn |-> "start_discovery", handle |-> 1]}
    /\ nativeDiscovery = {[lf |-> 1, handle |-> 1, id |-> 1, by |-> 1,
                           state |-> "running", found |-> {}]}
    /\ libfibre = 1
    /\ terminate_libfibre = 1
    /\ libfibre_thread = 1
    /\ libfibre_refcount = 1
    /\ lock = 0
    /\ events = Put(Put(EmptyMap, ChanEv, NewEvent), 1,
                    [set |-> FALSE, subs |-> <<DecrementCb, StopCb(1, 1)>>])
    /\ thr = [th \in AllThreads |->
                IF th = 1 THEN [Thread("wait") EXCEPT !.timeout = TRUE, !.ret = "post"]
                ELSE IF th \in Threads THEN Thread("idle")
                ELSE IF th = ReactorThread(1) THEN Thread("running")
                     ELSE Thread("none")]

NextIntf ==
    \/ \E obj \in ObjHandles, intf \in IntfHandles :
          Len(proxies) < MaxProxies /\ ConstructObject(1, obj, intf)
    \/ \E obj \in ObjHandles : DestroyObject(1, obj)
    \/ \E ctx \in IntfHandles, func \in FuncHandles, name \in PropertyFuncNames,
          sig \in PropertySignatures : OnFunctionAdded(1, ctx, func, name, sig)
    \/ \E ctx \in IntfHandles, attr \in AttrHandles, name \in AttrNames,
          subintf \in SubIntfHandles, subintf_name \in SubIntfNames :
          OnAttributeAdded(1, ctx, attr, name, subintf, subintf_name)
    \/ \E ctx \in IntfHandles, attr \in AttrHandles : OnAttributeRemoved(1, ctx, attr)
    \/ \E ctx \in IntfHandles, func \in FuncHandles : OnFunctionRemoved(1, ctx, func)
    \/ \E th \in AllThreads, p \in 1..MaxProxies, name \in AttrNames,
          status \in Statuses, obj_handle \in ObjHandles :
          __get__(th, p, name, status, obj_handle)
    \/ \E th \in AllThreads, p \in 1..MaxProxies, name \in AttrNames,
          status \in Statuses, obj_handle \in ObjHandles :
          __set__(th, p, name, status, obj_handle)
    \/ \E t \in Threads : WaitTimeout(t)
    \/ \E th \in AllThreads : RunSub(th)
    \/ \E th \in AllThreads : DecJoin(th)
    \/ RunTerminate(1)
    \/ ReactorClose(1)

SpecIntf == InitIntf /\ [][NextIntf]_vars

---------------------------------------------------------------------------
(* The interface type cache's specification: the same runtime; the native  *)
(* library constructs and destroys up to MaxLive objects and reports plain *)
(* attributes, user code reads them, and the timeout of the find_any        *)
(* releases the runtime                                                    *)

MaxLive == 2

NextTypes ==
    \/ \E obj \in 1..MaxLive, intf \in IntfHandles :
          Len(proxies) < MaxLive /\ ConstructObject(1, obj, intf)
    \/ \E obj \in 1..MaxLive : DestroyObject(1, obj)
    \/ \E ctx \in IntfHandles, attr \in AttrHandles, name \in AttrNames,
          subintf \in SubIntfHandles : OnAttributeAdded(1, ctx, attr, name, subintf, <<>>)
    \/ \E th \in AllThreads, p \in 1..MaxLive, name \in AttrNames,
          status \in Statuses, obj_handle \in 1..MaxLive :
          __get__(th, p, name, status, obj_handle)
    \/ \E t \in Threads : WaitTimeout(t)
    \/ \E th \in AllThreads : RunSub(th)
    \/ \E th \in AllThreads : DecJoin(th)
    \/ RunTerminate(1)
    \/ ReactorClose(1)

SpecTypes == InitIntf /\ [][NextTypes]_vars

\* the native "stopped" notification of discovery ctx, which the native
\* library delivers once for a discovery that was stopped:
\* print("discovery stopped")
OnDiscoveryStopped(g, ctx) ==
    /\ Running(g)
    /\ \E nd \in nativeDiscovery :
          /\ nd.lf = g /\ nd.id = ctx /\ nd.state = "stopped"
          /\ nativeDiscovery' = (nativeDiscovery \ {nd})
                                   \cup {[nd EXCEPT !.state = "notified"]}
    /\ attempts' = NoAttempt
    /\ UNCHANGED <<regVars, callVars, discovery_processes, reactor, libfibre,
                   terminate_libfibre, libfibre_thread, libfibre_refcount, lock,
                   events, thr, queue, nativeLog>>

---------------------------------------------------------------------------
(* The discovery session's specification: thread 1 is inside find_any,     *)
(* whose discovery runs, and the native library, which has constructed     *)
(* MaxFound objects of one interface, reports them to the session          *)

MaxFound == 2

InitFound ==
    /\ objects = <<[h \in 1..MaxFound |-> h]>>
    /\ interfaces = <<Put(EmptyMap, 1, 1)>>
    /\ types = <<[NewClass(1, NativeIntfName(1), 1) EXCEPT !.refcount = MaxFound]>>
    /\ proxies = [h \in 1..MaxFound |-> RemoteObject(1, h, 1)]
    /\ discovery_processes = <<Put(EmptyMap, 1, [handle |-> 1, callback |-> 1])>>
    /\ queue = << <<>> >>
    /\ reactor = <<NewReactor>>
    /\ futures = <<>>
    /\ bridge = [t \in Callers |-> IdleBridge]
    /\ attempts = NoAttempt
    /\ nativeLog = {[fn |-> "open", handle |-> 1],
                    [fn |-> "start_discovery", handle |-> 1],
                    [fn |-> "subscribe_to_interface", handle |-> 1]}
    /\ nativeDiscovery = {[lf |-> 1, handle |-> 1, id |-> 1, by |-> 1,
                           state |-> "running", found |-> {}]}
    /\ libfibre = 1
    /\ terminate_libfibre = 1
    /\ libfibre_thread = 1
    /\ libfibre_refcount = 1
    /\ lock = 0
    /\ events = Put(Put(EmptyMap, ChanEv, NewEvent), 1,
                    [set |-> FALSE, subs |-> <<DecrementCb, StopCb(1, 1)>>])
    /\ \E sn \in Serials, tok \in Tokens :
          thr = [th \in AllThreads |->
                   IF th = 1 THEN [Thread("wait") EXCEPT !.timeout = TRUE,
                                      !.ret = "post", !.serial = sn, !.chan = tok]
                   ELSE IF th \in Threads THEN Thread("idle")
                   ELSE IF th = ReactorThread(1) THEN Thread("running")
                        ELSE Thread("none")]

NextFound ==
    \/ \E obj \in 1..MaxFound : OnFoundObject(1, 1, obj)
    \/ OnDiscoveryStopped(1, 1)
    \/ \E p \in 1..MaxFound : RunFilter(1, 1, p)
    \/ \E inv \in BOOLEAN : FilterSubscribe(1, inv)
    \/ FilterCallback(1)
    \/ \E th \in AllThreads : RunSub(th)
    \/ \E t \in Threads : WaitDone(t)
    \/ \E t \in Threads : WaitTimeout(t)
    \/ \E t \in Threads : SetChannel(t)
    \/ \E th \in AllThreads : DecJoin(th)
    \/ RunTerminate(1)
    \/ ReactorClose(1)

SpecFound == InitFound /\ [][NextFound]_vars

\* the steps the reactor thread of generation g takes by itself: the loop
\* runs the next ready callback, a coroutine carries on, run_event_loop
\* returns
ReactorStep(g) ==
    \/ \E t \in Threads, p \in 1..MaxFound : RunFilter(g, t, p)
    \/ \E inv \in BOOLEAN : FilterSubscribe(g, inv)
    \/ FilterCallback(g)
    \/ RunSub(ReactorThread(g))
    \/ RunTerminate(g)
    \/ ReactorClose(g)

\* the steps user thread t takes by itself once a signal is set: the
\* subscriber callbacks, the join, the return of wait
UserStep(t) == RunSub(t) \/ DecJoin(t) \/ WaitDone(t)

\* The discovery session's specification with the scheduling of threads: a
\* thread that can take a step of its own does take one.  What the native
\* library reports, and whether a timeout elapses, stays open.
SpecFoundFair ==
    /\ SpecFound
    /\ WF_vars(ReactorStep(1))
    /\ \A t \in Threads : WF_vars(UserStep(t))

---------------------------------------------------------------------------
(* The event reactor bridge: LibFibre._register_event,                     *)
(* LibFibre._deregister_event                                              *)

MaxFds == 2
MaxMask == 15
EventFds == 1..MaxFds
EventMasks == 0..MaxMask

\* the bits of a mask, lowest first
RECURSIVE BitsOf(_)
BitsOf(n) == IF n = 0 THEN <<>> ELSE <<n % 2>> \o BitsOf(n \div 2)

\* a mask test that takes the bit of value 4 for unsupported: 0xfffffffe
UnsupportedBitsWritableMutant == [i \in 1..32 |-> IF i = 1 THEN 0 ELSE 1]

\* 0xfffffffa, lowest bit first
UnsupportedBits == [i \in 1..32 |-> IF i \in {1, 3} THEN 0 ELSE 1]

\* events & bits, as a truth value (mask is the argument events)
AndBits(mask, bits) ==
    \E i \in 1..Len(BitsOf(mask)) : BitsOf(mask)[i] = 1 /\ bits[i] = 1

\* events & 1, events & 4
Readable(mask) == AndBits(mask, [i \in 1..32 |-> IF i = 1 THEN 1 ELSE 0])
Writable(mask) == AndBits(mask, [i \in 1..32 |-> IF i = 3 THEN 1 ELSE 0])

\* the record of a call of _register_event or _deregister_event
EventAttempt(op, g, event_fd, mask, exc) ==
    [op |-> op, lost |-> FALSE, arity |-> TRUE, ser_lost |-> FALSE,
     exc |-> exc, native |-> FALSE, by |-> ReactorThread(g), maps |-> {},
     invoked |-> "none", event_fd |-> event_fd, events |-> mask]

\* the native library registers event_fd for the conditions of mask, on
\* the reactor thread: the table entry and the subscriptions come first,
\* the test of the mask last
RegisterEvent(g, event_fd, mask) ==
    /\ Running(g)
    /\ reactor' = [reactor EXCEPT
          ![g].eventfd_map = Put(@, event_fd, mask),
          ![g].readers = IF Readable(mask) THEN @ \cup {event_fd} ELSE @,
          ![g].writers = IF Writable(mask) THEN @ \cup {event_fd} ELSE @]
    /\ attempts' = EventAttempt("register_event", g, event_fd, mask,
          IF AndBits(mask, UnsupportedBits)
          THEN "Exception: unsupported event mask" ELSE "None")
    /\ UNCHANGED <<regVars, callVars, discovery_processes, nativeDiscovery,
                   libfibre, terminate_libfibre, libfibre_thread, libfibre_refcount,
                   lock, events, thr, queue, nativeLog>>

\* the native library deregisters event_fd: a KeyError when it is not in
\* the table
DeregisterEvent(g, event_fd) ==
    /\ Running(g)
    /\ IF event_fd \in DOMAIN reactor[g].eventfd_map
       THEN LET mask == reactor[g].eventfd_map[event_fd]
            IN  /\ reactor' = [reactor EXCEPT
                      ![g].eventfd_map = Pop(@, event_fd),
                      ![g].readers = IF Readable(mask) THEN @ \ {event_fd} ELSE @,
                      ![g].writers = IF Writable(mask) THEN @ \ {event_fd} ELSE @]
                /\ attempts' = EventAttempt("deregister_event", g, event_fd, mask,
                                            "None")
       ELSE /\ attempts' = EventAttempt("deregister_event", g, event_fd, 0,
                                        "KeyError")
            /\ UNCHANGED reactor
    /\ UNCHANGED <<regVars, callVars, discovery_processes, nativeDiscovery,
                   libfibre, terminate_libfibre, libfibre_thread, libfibre_refcount,
                   lock, events, thr, queue, nativeLog>>

\* The event reactor bridge's specification: one runtime, started; the
\* native library registers and deregisters file descriptors
NextLoop ==
    \/ \E event_fd \in EventFds, mask \in EventMasks : RegisterEvent(1, event_fd, mask)
    \/ \E event_fd \in EventFds : DeregisterEvent(1, event_fd)

SpecLoop == Init /\ [][NextLoop]_vars

---------------------------------------------------------------------------
(* Timers: LibFibre._call_later, LibFibre._cancel_timer                    *)

MaxTimers == 3
TimerIds == 1..MaxTimers

\* loop.call_later(delay, callback, ctx): a new TimerHandle, the n-th
TimerHandle(n) == [n |-> n, fired |-> FALSE]

\* the record of a call of _call_later or _cancel_timer
TimerAttempt(op, g, timer_id, exc) ==
    [op |-> op, lost |-> FALSE, arity |-> TRUE, ser_lost |-> FALSE,
     exc |-> exc, native |-> FALSE, by |-> ReactorThread(g), maps |-> {},
     invoked |-> "none", timer_id |-> timer_id]

\* the native library asks for a timer, on the reactor thread: the handle
\* of loop.call_later is stored under a new id, which is returned
CallLater(g) ==
    LET timer_id == NewId(reactor[g].timer_map)
        n == reactor[g].call_laters + 1
    IN  /\ Running(g)
        /\ reactor' = [reactor EXCEPT
              ![g].timer_map = Put(@, timer_id, TimerHandle(n)),
              ![g].call_laters = n,
              ![g].native_timers = @ \cup {[id |-> timer_id, n |-> n]}]
        /\ attempts' = TimerAttempt("call_later", g, timer_id, "None")
        /\ UNCHANGED <<regVars, callVars, discovery_processes, nativeDiscovery,
                       libfibre, terminate_libfibre, libfibre_thread, libfibre_refcount,
                       lock, events, thr, queue, nativeLog>>

\* the native library cancels timer timer_id: timer_map.pop(timer_id), a
\* KeyError when it is no key, and the handle's cancel()
CancelTimer(g, timer_id) ==
    /\ Running(g)
    /\ IF timer_id \in DOMAIN reactor[g].timer_map
       THEN /\ reactor' = [reactor EXCEPT
                  ![g].timer_map = Pop(@, timer_id),
                  ![g].native_timers = {nt \in @ : nt.id # timer_id}]
            /\ attempts' = TimerAttempt("cancel_timer", g, timer_id, "None")
       ELSE /\ attempts' = TimerAttempt("cancel_timer", g, timer_id, "KeyError")
            /\ UNCHANGED reactor
    /\ UNCHANGED <<regVars, callVars, discovery_processes, nativeDiscovery,
                   libfibre, terminate_libfibre, libfibre_thread, libfibre_refcount,
                   lock, events, thr, queue, nativeLog>>

\* the delay of the timer under timer_id has elapsed and the loop runs its
\* callback; nothing in libfibre.py removes the timer's record then
TimerFires(g, timer_id) ==
    /\ Running(g)
    /\ timer_id \in DOMAIN reactor[g].timer_map
    /\ ~reactor[g].timer_map[timer_id].fired
    /\ reactor' = [reactor EXCEPT ![g].timer_map[timer_id].fired = TRUE]
    /\ attempts' = NoAttempt
    /\ UNCHANGED <<regVars, callVars, discovery_processes, nativeDiscovery,
                   libfibre, terminate_libfibre, libfibre_thread, libfibre_refcount,
                   lock, events, thr, queue, nativeLog>>

\* The specification of the id tables: one runtime, started and held; user
\* code on the reactor thread calls a function without arguments, user
\* threads call find_any without a timeout (and wait), and the native
\* library completes calls and asks for, fires and cancels timers
NextIds ==
    \/ \E obj \in ObjHandles, intf \in IntfHandles :
          Len(proxies) < MaxProxies /\ ConstructObject(1, obj, intf)
    \/ \E ctx \in IntfHandles, func \in FuncHandles, name \in FuncNames :
          OnFunctionAdded(1, ctx, func, name, [inputs |-> <<>>, outputs |-> <<>>])
    \/ \E p \in 1..MaxProxies, name \in FuncNames : CallInline(1, p, name, <<>>)
    \/ \E c \in 1..Len(types), name \in FuncNames, ctx \in 1..MaxFutures :
          \E status \in CompletionStatuses(c, name, ctx) \cap {kFibreOk, kFibreCancelled} :
          \E rx \in RxBuffers(c, name, status) : OnCompleted(c, name, ctx, status, rx)
    \/ \E t \in Threads : FindAny(t, "", None, FALSE)
    \/ \E t \in Threads : FindAllPost(t)
    \/ \E t \in Threads : RunStartDiscovery(1, t, FALSE)
    \/ reactor[1].call_laters < MaxTimers /\ CallLater(1)
    \/ \E timer_id \in TimerIds : CancelTimer(1, timer_id)
    \/ \E timer_id \in TimerIds : TimerFires(1, timer_id)

SpecIds == Init /\ [][NextIds]_vars

---------------------------------------------------------------------------
(* Properties of the call dispatcher *)

\* the Call records of every descriptor that refer to future f
RecordsOf(f) ==
    {<<c, name, ctx>> \in (1..Len(types)) \X FuncNames \X (1..MaxFutures) :
        /\ IsFunction(c, name)
        /\ ctx \in DOMAIN types[c].members[name].calls
        /\ types[c].members[name].calls[ctx].future = f}

\* C1: every call's pending result is resolved at most once; once a
\* completion for its call id has been delivered it has been resolved exactly
\* once and no Call record for it is left in the in-flight table, so that a
\* further completion for that id finds nothing to resolve.
SingleResolution ==
    \A f \in 1..Len(futures) :
        /\ futures[f].resolutions <= 1
        /\ futures[f].completions <= 1
        /\ futures[f].completions = 1 =>
              /\ futures[f].resolutions = 1
              /\ futures[f].state # "pending"
              /\ RecordsOf(f) = {}
        /\ futures[f].completions = 0 /\ futures[f].state = "pending" =>
              Cardinality(RecordsOf(f)) = 1

\* a call was completed and resolved, and a later call reuses its id
SingleResolutionWitness ==
    \E f, h \in 1..Len(futures) :
        /\ f # h
        /\ futures[f].completions = 1 /\ futures[f].resolutions = 1
        /\ futures[f].state \in {"result", "exception"}
        /\ futures[h].ctx = futures[f].ctx
        /\ futures[h].name = futures[f].name /\ futures[h].cls = futures[f].cls
        /\ futures[h].state = "pending"

BridgeDelivers ==
    \A t \in Callers : bridge[t].task = "done" => bridge[t].future # "pending"

\* the byte offset of output i: the lengths of the outputs before it
OffsetOf(outputs, i) == SumSeq([j \in 1..(i - 1) |-> CodecLength(outputs[j])])

\* the success a completion with status ok resolves to
ExpectedResult(outputs, rx) ==
    [kind |-> CASE Len(outputs) = 0 -> "none"
                [] Len(outputs) = 1 -> "single"
                [] OTHER -> "tuple",
     items |-> [i \in 1..Len(outputs) |->
                  IntV(UnpackLE(SubSeq(rx, OffsetOf(outputs, i) + 1,
                                       OffsetOf(outputs, i) + CodecLength(outputs[i]))))]]

\* the failure class of each status
ExpectedFailure(status) ==
    IF status = 1 THEN "CancelledError"
    ELSE IF status = 2 THEN "ObjectLostError"
    ELSE IF status = 3 THEN "ArgumentError"
    ELSE IF status = 4 THEN "Exception: internal libfibre error"
    ELSE "Exception: unknown libfibre error"

\* C4: what a completion resolves a call to is determined by its status:
\* ok gives the success decoded from the rx buffer in descriptor order at
\* accumulated offsets (nothing, the one value, or the tuple), any other
\* status gives the failure of that status' class.
ResolutionByStatus ==
    \A f \in 1..Len(futures) :
        futures[f].status # -1 =>
            IF futures[f].status = 0
            THEN /\ futures[f].state = "result"
                 /\ futures[f].exc = "None"
                 /\ futures[f].value =
                       ExpectedResult(types[futures[f].cls].members[futures[f].name].outputs,
                                      futures[f].rx)
            ELSE /\ futures[f].state = "exception"
                 /\ futures[f].exc = ExpectedFailure(futures[f].status)

\* a two-output call resolved to a tuple whose second value comes from the
\* bytes behind the first output, and another call failed with the unknown
\* class
ResolutionByStatusWitness ==
    \E f, h \in 1..Len(futures) :
        /\ futures[f].status = 0 /\ futures[f].state = "result"
        /\ futures[f].value.kind = "tuple"
        /\ futures[f].value.items = <<IntV(0), IntV(256)>>
        /\ futures[h].status = 5
        /\ futures[h].exc = "Exception: unknown libfibre error"

\* C5: a cancelled call has had the native cancel entry point invoked.
CancelInvokesNative ==
    \A f \in 1..Len(futures) :
        futures[f].state = "cancelled" => \E e \in nativeLog : e.fn = "cancel_call"

\* C6: an operation on a destroyed proxy (a call through it, or its
\* serialization as an object reference) raises ObjectLostError.
LostProxyRaisesObjectLost ==
    (attempts.op = "call" /\ (attempts.lost \/ attempts.ser_lost)) =>
        attempts.exc = "ObjectLostError"

\* C7: a proxy's lost notifier has fired exactly once when the proxy is
\* destroyed, by the destroy notification or by the destruction of every
\* registered proxy at shutdown, and not at all while it is live.
LostNotifierOnce ==
    \A p \in 1..Len(proxies) :
        proxies[p].on_lost = (IF proxies[p].obj_handle = None THEN 1 ELSE 0)

\* the reactor has shut down, and a proxy that a discovery had found is
\* destroyed, its notifier fired
LostNotifierOnceWitness ==
    \E p \in 1..Len(proxies) :
        /\ proxies[p].obj_handle = None /\ proxies[p].libfibre = None
        /\ proxies[p].on_lost = 1
        /\ objects[1] = EmptyMap
        /\ [fn |-> "close", handle |-> 1] \in nativeLog
        /\ \E t \in Threads : p \in thr[t].seen

---------------------------------------------------------------------------
(* Properties of the runtime and of discovery *)

\* C8: when find_any has returned, every native discovery it started has
\* had the native stop entry point invoked with its handle and none is
\* running, and no start of a discovery for it is still to come.
FindAnyStopsDiscovery ==
    \A t \in Threads :
        thr[t].pc = "returned" =>
            /\ \A nd \in nativeDiscovery :
                  nd.by = t =>
                     /\ nd.state # "running"
                     /\ [fn |-> "stop_discovery", handle |-> nd.handle] \in nativeLog
            /\ \A g \in 1..Len(queue) :
                  thr[ReactorThread(g)].pc # "exited" =>
                     \A i \in 1..Len(queue[g]) :
                        queue[g][i] # Item("start_discovery", t, 0)

\* the identity string of a proxy (fibre.utils.get_serial_number_str)
SerialOf(p) == "SN123"

\* the filter of thread t's find_all has yet to finish with proxy p
InFilter(t, p) ==
    \E g \in 1..Len(queue) :
        \/ thr[ReactorThread(g)].cur = Item("filter", t, p)
        \/ \E i \in 1..Len(queue[g]) : queue[g][i] = Item("filter", t, p)

\* C9: a found object the filter has finished with has been forwarded to
\* the user callback exactly if no identity is required or its identity
\* equals the required one.
FilterForwards ==
    \A t \in Threads : \A p \in thr[t].seen :
        ~InFilter(t, p) =>
            (p \in thr[t].result <=> (thr[t].serial = "" \/ SerialOf(p) = thr[t].serial))

\* run_event_loop of generation g has been started and has not returned
Alive(g) == g \in 1..Len(reactor) /\ thr[ReactorThread(g)].pc \notin {"none", "exited"}

\* C10: at most one reactor thread exists; a thread whose acquire has just
\* returned finds the reactor initialized; and when the counter is 0 and no
\* release is under way, no reactor thread exists and none is recorded.
ReactorInStep ==
    /\ Cardinality({g \in 1..MaxGen : Alive(g)}) <= 1
    /\ \A t \in Threads :
          thr[t].pc = "post" =>
             /\ libfibre_thread # None
             /\ thr[ReactorThread(libfibre_thread)].pc \notin {"starting", "exited"}
    /\ (libfibre_refcount = 0 /\ lock = 0) =>
          /\ \A g \in 1..MaxGen : ~Alive(g)
          /\ libfibre_thread = None

---------------------------------------------------------------------------
(* Properties of shutdown and of the interface types *)

\* the reactor thread of generation g exits in this step
Exits(g) ==
    /\ g \in 1..Len(reactor)
    /\ thr[ReactorThread(g)].pc # "exited"
    /\ thr'[ReactorThread(g)].pc = "exited"

\* C11: when the reactor thread exits after the shutdown, every proxy that
\* was registered is destroyed with its lost notifier fired, and both the
\* object registry and the interface type cache of its LibFibre are empty,
\* whatever they held when the shutdown began.
ShutdownEmptiesRegistries ==
    [][\A g \in 1..MaxGen : Exits(g) =>
          /\ \A p \in Registered(g) :
                proxies'[p].obj_handle = None /\ proxies'[p].on_lost = 1
          /\ objects'[g] = EmptyMap
          /\ interfaces'[g] = EmptyMap]_vars

\* thread th, the reactor thread, has run a release in this step
ReleasedOnReactor(th) ==
    /\ attempts'.op = "release" /\ attempts'.by = th
    /\ libfibre_thread # None /\ th = ReactorThread(libfibre_thread)

\* C12 (as amended): a release that runs on the reactor thread itself and
\* brings the counter to zero fails with the assertion, and the reactor
\* thread does not go on to join a thread.
FinalReleaseOnReactorAsserts ==
    [][\A th \in AllThreads :
          (ReleasedOnReactor(th) /\ libfibre_refcount' = 0)
          => /\ attempts'.exc = "AssertionError"
             /\ thr'[th].pc # "dec_join"]_vars

\* the reactor thread has just run the release that brought the counter to
\* zero, and the assertion failed
FinalReleaseOnReactorAssertsWitness ==
    /\ attempts.op = "release" /\ attempts.exc = "AssertionError"
    /\ libfibre_refcount = 0
    /\ libfibre_thread # None /\ attempts.by = ReactorThread(libfibre_thread)
    /\ thr[attempts.by].pc = "running"

\* C12 (as stated): any release that runs on the reactor thread itself
\* fails with the assertion, and the reactor thread does not go on to join
\* a thread.
ReleaseOnReactorAsserts ==
    [][\A th \in AllThreads :
          ReleasedOnReactor(th)
          => /\ attempts'.exc = "AssertionError"
             /\ thr'[th].pc # "dec_join"]_vars

\* the session callback that runs on the reactor thread of generation g
\* raises in this step: the subscribe on a token that is None, the serial
\* number test, or a release that raises inside one of its subscribe or set
CallbackFails(g) ==
    LET th == ReactorThread(g)
        me == thr[th]
    IN  /\ g \in 1..Len(reactor)
        /\ \/ me.pc = "filter_sub" /\ thr[me.cur.t].chan = None /\ thr'[th] # me
           \/ me.pc = "filter_cb" /\ thr[me.cur.t].serial # "" /\ thr'[th] # me
           \/ /\ me.pc = "subs" /\ attempts'.op = "release"
              /\ attempts'.by = th /\ attempts'.exc # "None"

PropertyForm(n) ==
    Len(n) >= 2 /\ n[1] = "fibre.Property<" /\ n[Len(n)] = ">"
ReadWriteForm(n) ==
    Len(n) >= 3 /\ n[1] = "fibre.Property<" /\ n[2] = "readwrite " /\ n[Len(n)] = ">"

CachedTypes(g) == {interfaces[g][h] : h \in DOMAIN interfaces[g]}

\* C15: the refcount of every cached interface type is the number of
\* proxies of that type in the object registry, and is not negative.
RefcountCountsProxies ==
    \A g \in 1..Len(interfaces) : \A c \in CachedTypes(g) :
       /\ types[c].refcount = LiveOf(g, c)
       /\ types[c].refcount >= 0

\* one type is shared by two registered proxies, one of which has just had
\* an attribute read
RefcountCountsProxiesWitness ==
    /\ attempts.op = "get"
    /\ \E c \in CachedTypes(1) : types[c].refcount = 2 /\ LiveOf(1, c) = 2

\* C16: the interface type cache holds an entry for a handle exactly while
\* a registered proxy of that interface exists: every cached type has a
\* refcount of at least 1 and a registered proxy, and the class of every
\* registered proxy is the one cached under its handle.
CacheHoldsLiveTypes ==
    \A g \in 1..Len(interfaces) :
       /\ \A c \in CachedTypes(g) : types[c].refcount >= 1 /\ LiveOf(g, c) >= 1
       /\ \A p \in Registered(g) :
             /\ types[proxies[p].cls].handle \in DOMAIN interfaces[g]
             /\ interfaces[g][types[proxies[p].cls].handle] = proxies[p].cls

\* C17: the maps of a LibFibre instance (handle to proxy, handle to type,
\* discovery sessions, calls in flight) are read and written by reactor
\* threads only: whatever operation touched one of them in the last step
\* ran on a reactor thread.
MapsOnReactorOnly ==
    attempts.maps # {} =>
       \E g \in 1..Len(reactor) : attempts.by = ReactorThread(g)

\* the stop callback of session d of LibFibre lf has yet to run in a thread
\* that set the session's cancellation signal
StopPending(lf, d) ==
    \E th \in AllThreads : \E i \in 1..Len(thr[th].todo) :
       thr[th].todo[i] = StopCb(lf, d)

\* C18: once the native "stopped" notification of a session has fired, or
\* its cancellation signal is set and the signal's subscribers have run, the
\* session table holds no record with the session's id.
SessionRecordRemoved ==
    \A nd \in nativeDiscovery :
       ( \/ nd.state = "notified"
         \/ events[nd.by].set /\ ~StopPending(nd.lf, nd.id) )
       => nd.id \notin DOMAIN discovery_processes[nd.lf]

\* C19: right after an "attribute removed" or "function removed"
\* notification for a cached interface, the interface type has no descriptor
\* of that kind with the handle the notification names.
DescriptorRemoved ==
    \A g \in 1..Len(interfaces) :
       ( /\ attempts.op \in {"attribute_removed", "function_removed"}
         /\ attempts.by = ReactorThread(g)
         /\ attempts.ctx \in DOMAIN interfaces[g] )
       => LET c == interfaces[g][attempts.ctx]
              kind == IF attempts.op = "attribute_removed" THEN "attribute"
                      ELSE "function"
          IN  \A name \in DOMAIN types[c].members :
                 ~ /\ types[c].members[name].kind = kind
                   /\ types[c].members[name].handle = attempts.handle

---------------------------------------------------------------------------
(* Properties of the event reactor bridge *)

\* a mask has a bit other than 1 and 4
HasOtherBits(mask) == (mask \div 2) % 2 = 1 \/ mask \div 8 # 0

\* C20: a register_event whose mask has a bit other than 1 and 4 fails with
\* the unsupported event mask error; one whose mask has no such bit succeeds
\* and subscribes the file descriptor for reading exactly when bit 1 is set
\* and for writing exactly when bit 4 is set, and changes no other
\* subscription.
RegisterEventChecksMask ==
    [][attempts'.op = "register_event" =>
          LET fd == attempts'.event_fd
              ev == attempts'.events
              g == attempts'.by - MaxThreads
          IN  /\ HasOtherBits(ev) =>
                    attempts'.exc = "Exception: unsupported event mask"
              /\ ~HasOtherBits(ev) =>
                    /\ attempts'.exc = "None"
                    /\ reactor'[g].readers = reactor[g].readers \cup
                          (IF ev % 2 = 1 THEN {fd} ELSE {})
                    /\ reactor'[g].writers = reactor[g].writers \cup
                          (IF (ev \div 4) % 2 = 1 THEN {fd} ELSE {})]_vars

\* a file descriptor has just been registered for reading and writing, and
\* another one was refused before
RegisterEventChecksMaskWitness ==
    /\ attempts.op = "register_event" /\ attempts.events = 5
    /\ attempts.exc = "None"
    /\ attempts.event_fd \in reactor[1].readers \cap reactor[1].writers
    /\ \E fd \in DOMAIN reactor[1].eventfd_map :
          fd # attempts.event_fd /\ HasOtherBits(reactor[1].eventfd_map[fd])

---------------------------------------------------------------------------
(* Properties of the id tables *)

\* the keys of table new that table old does not have
FreshKeys(old, new) == (DOMAIN new) \ (DOMAIN old)

\* table old becomes table new: a new key is the smallest positive integer
\* that is no key of old
AssignsSmallest(old, new) ==
    \A k \in FreshKeys(old, new) :
        k >= 1 /\ \A y \in 1..(k - 1) : y \in DOMAIN old

\* the keys of old that new keeps
KeptKeys(old, new) == (DOMAIN old) \cap (DOMAIN new)

\* no two calls of one descriptor that the native library has yet to
\* complete, no two discoveries of one LibFibre that it has not closed, and
\* no two timers that it holds, have the same id
IdsUnique ==
    /\ \A f, h \in 1..Len(futures) :
          (f # h /\ futures[f].cls = futures[h].cls /\ futures[f].name = futures[h].name
             /\ futures[f].completions = 0 /\ futures[h].completions = 0)
          => futures[f].ctx # futures[h].ctx
    /\ \A nd1, nd2 \in nativeDiscovery :
          (nd1 # nd2 /\ nd1.lf = nd2.lf /\ nd1.state # "closed" /\ nd2.state # "closed")
          => nd1.id # nd2.id
    /\ \A g \in 1..Len(reactor) : \A nt1, nt2 \in reactor[g].native_timers :
          nt1 # nt2 => nt1.id # nt2.id

\* in a step every table of ids takes its new keys as AssignsSmallest says,
\* and a key that stays keeps its record: the call's future, the session's
\* native handle, the timer's TimerHandle
IdsAssignedSmallest ==
    /\ \A c \in 1..Len(types) : \A name \in FuncNames :
          (IsFunction(c, name) /\ c \in 1..Len(types') /\ name \in DOMAIN types'[c].members)
          => LET old == types[c].members[name].calls
                 new == types'[c].members[name].calls
             IN  /\ AssignsSmallest(old, new)
                 /\ \A k \in KeptKeys(old, new) : new[k].future = old[k].future
    /\ \A g \in 1..Len(reactor) :
          /\ AssignsSmallest(discovery_processes[g], discovery_processes'[g])
          /\ \A k \in KeptKeys(discovery_processes[g], discovery_processes'[g]) :
                discovery_processes'[g][k].handle = discovery_processes[g][k].handle
          /\ AssignsSmallest(reactor[g].timer_map, reactor'[g].timer_map)
          /\ \A k \in KeptKeys(reactor[g].timer_map, reactor'[g].timer_map) :
                reactor'[g].timer_map[k].n = reactor[g].timer_map[k].n

\* C21: call ids (per function descriptor), discovery-session ids and timer
\* ids are unique among the records in use at every instant, and a newly
\* assigned id is the smallest positive integer that is no key of its table
\* then; an id is given again only after its record was removed.
FreshIdsSmallestUnused ==
    []IdsUnique /\ [][IdsAssignedSmallest]_vars

\* the third timer has been given id 1, which the cancelled first timer had,
\* while the second still holds id 2; a second call has been given the id
\* of the completed first; and two discovery sessions hold ids 1 and 2
FreshIdsSmallestUnusedWitness ==
    /\ attempts.op = "call_later" /\ attempts.timer_id = 1
    /\ DOMAIN reactor[1].timer_map = {1, 2}
    /\ reactor[1].timer_map[1].n = 3 /\ reactor[1].timer_map[2].n = 2
    /\ Len(futures) = 2
    /\ futures[1].ctx = 1 /\ futures[1].completions = 1
    /\ futures[2].ctx = 1 /\ futures[2].completions = 0
    /\ DOMAIN discovery_processes[1] = {1, 2}

---------------------------------------------------------------------------
(* Properties of the final release *)

\* thread th has made the release that brought the counter to zero, holds
\* the lock and is inside libfibre_thread.join()
Joining(th) == thr[th].pc = "dec_join" /\ lock = th

\* C22: the release that brings the counter to zero eventually returns:
\* the reactor thread runs the shutdown it was sent and exits, and the join
\* of the releasing thread completes, whatever "object found" callbacks are
\* queued or running on the reactor thread.
FinalReleaseReturns ==
    \A th \in AllThreads : Joining(th) ~> ~Joining(th)

---------------------------------------------------------------------------
(* Properties of a cancelled discovery *)

\* some thread is still inside the set() of a signal (or a subscribe that
\* invokes at once): it has subscriber callbacks to run, or is in the join
\* that one of them makes
SetInProgress ==
    \E th \in AllThreads : thr[th].pc \in {"subs", "dec_join"}

\* the search cancellation signal of thread t's find_all has been set, and
\* the set() has returned
Cancelled(t) == t \in DOMAIN events /\ events[t].set /\ ~SetInProgress

\* C23: once the search cancellation signal has been set and the posted
\* start_discovery has run, no native discovery of that session is left
\* running, in either order of the two events (looked at while the runtime
\* is held, so that no shutdown is on its way to close the discovery).
CancelledDiscoveryNotRunning ==
    \A t \in Threads :
        (Cancelled(t) /\ libfibre_refcount > 0) =>
            \A nd \in nativeDiscovery : nd.by = t => nd.state # "running"

---------------------------------------------------------------------------
(* Properties of the fd registration table *)

\* the mask that the table of generation g records for event_fd (0: none)
RecordedMask(g, event_fd) ==
    IF event_fd \in DOMAIN reactor[g].eventfd_map
    THEN reactor[g].eventfd_map[event_fd] ELSE 0

\* C24: after any register_event and deregister_event calls the loop's
\* subscriptions agree with the fd registration table: an fd has a reader
\* subscription exactly when the table records it with bit 1, a writer
\* subscription exactly when the table records it with bit 4, and every
\* recorded mask has no bits but 1 and 4; so an fd that was deregistered,
\* having no entry, has no subscription.
SubscriptionsAgreeWithTable ==
    \A g \in 1..Len(reactor) : \A event_fd \in EventFds :
        /\ event_fd \in reactor[g].readers <=> Readable(RecordedMask(g, event_fd))
        /\ event_fd \in reactor[g].writers <=> Writable(RecordedMask(g, event_fd))
        /\ ~HasOtherBits(RecordedMask(g, event_fd))

============================================================================
